---- MODULE Spec2Model ----
(***************************************************************************)
(* A model of the conditional-token (CTF) command dispatcher of            *)
(* polymarket-cli: src/src/commands/ctf.rs.                                *)
(*                                                                         *)
(* Strings are sequences of one-character strings.  Unsigned integers of   *)
(* the program (u64, U256) are sequences of bits, most significant first,  *)
(* without leading zeros (zero is the empty sequence), so that values up   *)
(* to 2^64 and the 53-bit significands of f64 are computed exactly.        *)
(***************************************************************************)
EXTENDS Integers, Sequences, FiniteSets, TLC

\* ------------------------------------------------------------------------
\* Bounds of the model
\* ------------------------------------------------------------------------

\* The largest number of comma-separated elements in a generated CSV input.
MaxElems == 2

\* ------------------------------------------------------------------------
\* Characters and strings
\* ------------------------------------------------------------------------

Digits == {"0", "1", "2", "3", "4", "5", "6", "7", "8", "9"}

\* char::to_digit(10) of a decimal digit.
DigitVal(c) ==
    CASE c = "0" -> 0 [] c = "1" -> 1 [] c = "2" -> 2 [] c = "3" -> 3
      [] c = "4" -> 4 [] c = "5" -> 5 [] c = "6" -> 6 [] c = "7" -> 7
      [] c = "8" -> 8 [] c = "9" -> 9

\* n copies of the character c.
Rep(c, n) == [i \in 1..n |-> c]

\* s without its first n characters.
Drop(s, n) == SubSeq(s, n + 1, Len(s))

\* char::is_whitespace, on the characters the inputs use.
IsSpace(c) == c \in {" ", "\t", "\n", "\r"}

\* str::trim: without the leading and trailing whitespace.
Trim(s) ==
    LET keep == {i \in 1..Len(s) : ~IsSpace(s[i])}
    IN  IF keep = {} THEN <<>>
        ELSE SubSeq(s, CHOOSE i \in keep : \A j \in keep : i <= j,
                       CHOOSE i \in keep : \A j \in keep : i >= j)

\* str::split(','): the pieces between commas, in order; always at least
\* one piece (the empty string splits into one empty piece).
SplitComma(s) ==
    LET commas == {i \in 1..Len(s) : s[i] = ","}
        \* the position of the j-th comma; 0 and Len(s) + 1 fence the ends
        pos(j) == IF j = 0 THEN 0
                  ELSE IF j > Cardinality(commas) THEN Len(s) + 1
                  ELSE CHOOSE i \in commas :
                           Cardinality({k \in commas : k <= i}) = j
    IN  [j \in 1..(Cardinality(commas) + 1) |->
            SubSeq(s, pos(j - 1) + 1, pos(j) - 1)]

\* ------------------------------------------------------------------------
\* Unsigned integers as bit sequences.  Arithmetic goes through limbs of
\* LimbBits bits (least significant limb first) to keep every intermediate
\* value inside the model checker's integers.
\* ------------------------------------------------------------------------

LimbBits == 10
LimbBase == 1024

\* Without leading zero bits.
Norm(b) ==
    LET ones == {i \in 1..Len(b) : b[i] = 1}
    IN  IF ones = {} THEN <<>>
        ELSE SubSeq(b, CHOOSE i \in ones : \A j \in ones : i <= j, Len(b))

RECURSIVE Pow2(_)
Pow2(n) == IF n = 0 THEN 1 ELSE 2 * Pow2(n - 1)

RECURSIVE IntBits(_)
IntBits(n) == IF n = 0 THEN <<>> ELSE Append(IntBits(n \div 2), n % 2)

\* The value of a bit sequence shorter than 31 bits.
RECURSIVE BitsInt(_)
BitsInt(b) ==
    IF b = <<>> THEN 0 ELSE 2 * BitsInt(SubSeq(b, 1, Len(b) - 1)) + b[Len(b)]

\* Bit p of b, bit 0 being the least significant.
BitAt(b, p) == IF p < Len(b) THEN b[Len(b) - p] ELSE 0

ToLimbs(b) ==
    [j \in 1..((Len(b) + LimbBits - 1) \div LimbBits) |->
        BitsInt([p \in 1..LimbBits |-> BitAt(b, LimbBits * j - p)])]

FromLimbs(l) ==
    Norm([i \in 1..(LimbBits * Len(l)) |->
            LET p == LimbBits * Len(l) - i
            IN  (l[p \div LimbBits + 1] \div Pow2(p % LimbBits)) % 2])

\* The limbs of l * c + carry, for a multiplier c <= 10^6.
RECURSIVE MulLimbs(_, _, _, _)
MulLimbs(l, c, i, carry) ==
    IF i > Len(l)
    THEN IF carry = 0 THEN <<>>
         ELSE <<carry % LimbBase>> \o MulLimbs(l, c, i, carry \div LimbBase)
    ELSE LET t == l[i] * c + carry
         IN  <<t % LimbBase>> \o MulLimbs(l, c, i + 1, t \div LimbBase)

\* b * c + v, for a multiplier c <= 10^6 and an addend v <= 10^6.
MulAdd(b, c, v) == FromLimbs(MulLimbs(ToLimbs(b), c, 1, v))

MulSmall(b, c) == MulAdd(b, c, 0)

AddSmall(b, v) == MulAdd(b, 1, v)

\* Long division of the limbs l by a divisor c <= 10^6, from limb i down:
\* the quotient's limbs and the remainder.
RECURSIVE DivLimbs(_, _, _, _)
DivLimbs(l, c, i, rem) ==
    IF i = 0 THEN [q |-> <<>>, r |-> rem]
    ELSE LET rest == DivLimbs(l, c, i - 1, (rem * LimbBase + l[i]) % c)
         IN  [q |-> Append(rest.q, (rem * LimbBase + l[i]) \div c), r |-> rest.r]

DivResult(d) == [q |-> FromLimbs(d.q), r |-> d.r]

DivFrom(l, c) == DivResult(DivLimbs(l, c, Len(l), 0))

DivSmall(b, c) == DivFrom(ToLimbs(b), c)

\* b * 2^s
ShiftLeft(b, s) == IF b = <<>> THEN <<>> ELSE b \o Rep(0, s)

\* 10^n for n <= Pow10Chunk, the largest power of ten used as a multiplier
\* or divisor in one pass over the limbs.
Pow10Chunk == 6

RECURSIVE Pow10(_)
Pow10(n) == IF n = 0 THEN 1 ELSE 10 * Pow10(n - 1)

Min(a, b) == IF a <= b THEN a ELSE b

\* The value of at most Pow10Chunk decimal digit characters.
RECURSIVE SmallDec(_, _)
SmallDec(ds, i) ==
    IF i > Len(ds) THEN 0
    ELSE DigitVal(ds[i]) * Pow10(Len(ds) - i) + SmallDec(ds, i + 1)

\* The bits of acc * 10^Len(ds) + ds, for a sequence ds of decimal digit
\* characters, Pow10Chunk digits at a time.
RECURSIVE DecBits(_, _)
DecBits(ds, acc) ==
    IF ds = <<>> THEN acc
    ELSE IF acc = <<>>
    THEN DecBits(Drop(ds, Min(Len(ds), Pow10Chunk)),
                 IntBits(SmallDec(SubSeq(ds, 1, Min(Len(ds), Pow10Chunk)), 1)))
    ELSE DecBits(Drop(ds, Min(Len(ds), Pow10Chunk)),
                 MulAdd(acc, Pow10(Min(Len(ds), Pow10Chunk)),
                        SmallDec(SubSeq(ds, 1, Min(Len(ds), Pow10Chunk)), 1)))

\* b * 10^n
RECURSIVE MulPow10(_, _)
MulPow10(b, n) ==
    IF n = 0 \/ b = <<>> THEN b
    ELSE MulPow10(MulSmall(b, Pow10(Min(n, Pow10Chunk))), n - Min(n, Pow10Chunk))

\* floor(b / 10^n), and whether a non-zero remainder was dropped.
RECURSIVE DivPow10(_, _, _)
RECURSIVE DivPow10Next(_, _, _)
DivPow10(b, n, sticky) ==
    IF n = 0 THEN [q |-> b, sticky |-> sticky]
    ELSE DivPow10Next(DivSmall(b, Pow10(Min(n, Pow10Chunk))),
                      n - Min(n, Pow10Chunk), sticky)

DivPow10Next(d, n, sticky) ==
    IF d.r = 0 THEN DivPow10(d.q, n, sticky) ELSE DivPow10(d.q, n, TRUE)

\* u64::MAX = 2^64 - 1
U64Bits == 64
U64_MAX == Rep(1, U64Bits)

\* U256::from of a small unsigned integer.
U256From(n) == IntBits(n)

\* ------------------------------------------------------------------------
\* f64: IEEE-754 binary64 values.  A finite non-zero value is
\* (-1)^neg * m * 2^e with m a significand of exactly F64_MANT bits.
\* Values below the normal range (subnormals) are outside the inputs used.
\* ------------------------------------------------------------------------

F64_MANT == 53
F64_MAX_EXP == 1023

F64NaN == [cls |-> "nan", neg |-> FALSE, m |-> <<>>, e |-> 0]
F64Inf(neg) == [cls |-> "inf", neg |-> neg, m |-> <<>>, e |-> 0]
F64Zero(neg) == [cls |-> "zero", neg |-> neg, m |-> <<>>, e |-> 0]

\* The significand m1 (head, possibly incremented) of a value m1 * 2^drop:
\* an increment that carries out of F64_MANT bits leaves 1 0...0.
Carried(m1, drop) ==
    IF Len(m1) > F64_MANT
    THEN [m |-> SubSeq(m1, 1, F64_MANT), drop |-> drop + 1]
    ELSE [m |-> m1, drop |-> drop]

\* Round the non-zero integer q (with `sticky` telling that a non-zero
\* fraction below q was already dropped) to F64_MANT bits, ties to even:
\* the result is m * 2^drop.
Round53(q, sticky) ==
    IF Len(q) <= F64_MANT
    THEN [m |-> q \o Rep(0, F64_MANT - Len(q)), drop |-> Len(q) - F64_MANT]
    ELSE IF q[F64_MANT + 1] = 1
            /\ (sticky \/ q[F64_MANT] = 1
                \/ \E i \in (F64_MANT + 2)..Len(q) : q[i] = 1)
    THEN Carried(AddSmall(SubSeq(q, 1, F64_MANT), 1), Len(q) - F64_MANT)
    ELSE [m |-> SubSeq(q, 1, F64_MANT), drop |-> Len(q) - F64_MANT]

\* The f64 (-1)^neg * r.m * 2^(e0 + r.drop); infinite past the largest exponent.
F64Make(neg, r, e0) ==
    IF e0 + r.drop + F64_MANT - 1 > F64_MAX_EXP THEN F64Inf(neg)
    ELSE [cls |-> "fin", neg |-> neg, m |-> r.m, e |-> e0 + r.drop]

Max(a, b) == IF a >= b THEN a ELSE b

\* The f64 nearest to (-1)^neg * n * 2^(-s) / 10^k, n already shifted left by s
\* bits so that the quotient has more than F64_MANT + 1 bits.
F64Quotient(neg, d, s) == F64Make(neg, Round53(d.q, d.sticky), -s)

F64Shifted(neg, n, k, s) == F64Quotient(neg, DivPow10(ShiftLeft(n, s), k, FALSE), s)

F64Ratio(neg, n, k) == F64Shifted(neg, n, k, Max(0, F64_MANT + 2 + 4 * k - Len(n)))

F64Scaled(neg, n0, k) ==
    IF n0 = <<>> THEN F64Zero(neg)
    ELSE IF k < 0 THEN F64Ratio(neg, MulPow10(n0, -k), 0)
    ELSE F64Ratio(neg, n0, k)

\* The f64 nearest to (-1)^neg * digits / 10^k (correctly rounded, as Rust's
\* dec2flt): digits is a sequence of decimal digit characters.
DecToF64(neg, digits, k) == F64Scaled(neg, DecBits(digits, <<>>), k)

\* x * c in f64 arithmetic, for an integer 0 < c < 2^20 (exact as an f64).
F64MulInt(x, c) ==
    IF x.cls # "fin" THEN x
    ELSE F64Make(x.neg, Round53(MulSmall(x.m, c), FALSE), x.e)

\* `x as u64`: truncation toward zero, saturating; NaN becomes 0.
F64AsU64(x) ==
    CASE x.cls = "nan"  -> <<>>
      [] x.cls = "zero" -> <<>>
      [] x.cls = "inf"  -> IF x.neg THEN <<>> ELSE U64_MAX
      [] x.cls = "fin"  ->
           IF x.neg THEN <<>>
           ELSE IF x.e >= 0
                THEN IF F64_MANT + x.e > U64Bits THEN U64_MAX
                     ELSE ShiftLeft(x.m, x.e)
                ELSE IF -x.e >= F64_MANT THEN <<>>
                     ELSE SubSeq(x.m, 1, F64_MANT + x.e)

\* x > 0.0 and x >= 0.0 (both false for NaN; -0.0 >= 0.0 is true).
F64Gt0(x) == x.cls \in {"fin", "inf"} /\ ~x.neg
F64Ge0(x) == x.cls = "zero" \/ F64Gt0(x)

\* --- <f64 as FromStr>::from_str ---

LowerChar(c) ==
    CASE c = "I" -> "i" [] c = "N" -> "n" [] c = "F" -> "f" [] c = "A" -> "a"
      [] c = "T" -> "t" [] c = "Y" -> "y" [] OTHER -> c

Lower(s) == [i \in 1..Len(s) |-> LowerChar(s[i])]

\* The length of the longest prefix of s made of decimal digits.
DigitPrefix(s) ==
    LET other == {i \in 1..Len(s) : s[i] \notin Digits}
    IN  IF other = {} THEN Len(s)
        ELSE (CHOOSE i \in other : \A j \in other : i <= j) - 1

\* The characters of a string.
Chars(s) == [i \in 1..Len(s) |-> SubSeq(s, i, i)]

\* The syntax f64::from_str accepts: [+-] (inf | infinity | nan |
\* digits [. digits] [(e|E) [+-] digits]) with at least one digit before the
\* exponent.  `special` names inf and nan; otherwise the text denotes
\* (-1)^neg * digits / 10^k exactly.
NotDecimal == [ok |-> FALSE, special |-> "", neg |-> FALSE, digits |-> <<>>, k |-> 0]

Special(neg, what) ==
    [ok |-> TRUE, special |-> what, neg |-> neg, digits |-> <<>>, k |-> 0]

\* The whole number is read: integer part ip, fraction fp, exponent ev.
DecEnd(neg, ip, fp, ev) ==
    IF Len(ip) + Len(fp) = 0 THEN NotDecimal
    ELSE [ok |-> TRUE, special |-> "", neg |-> neg, digits |-> ip \o fp,
          k |-> Len(fp) - ev]

\* After the exponent's sign: one or more digits, then the end.
DecExpDigits(neg, ip, fp, eneg, r) ==
    IF r = <<>> \/ DigitPrefix(r) # Len(r) THEN NotDecimal
    ELSE IF eneg THEN DecEnd(neg, ip, fp, -BitsInt(DecBits(r, <<>>)))
    ELSE DecEnd(neg, ip, fp, BitsInt(DecBits(r, <<>>)))

\* After the fraction: the end, or an exponent.
DecExp(neg, ip, fp, r) ==
    IF r = <<>> THEN DecEnd(neg, ip, fp, 0)
    ELSE IF Head(r) \notin {"e", "E"} \/ Len(ip) + Len(fp) = 0 THEN NotDecimal
    ELSE IF Len(r) > 1 /\ r[2] \in {"+", "-"}
    THEN DecExpDigits(neg, ip, fp, r[2] = "-", Drop(r, 2))
    ELSE DecExpDigits(neg, ip, fp, FALSE, Tail(r))

\* After '.': nf fraction digits.
DecFrac(neg, ip, r, nf) == DecExp(neg, ip, SubSeq(r, 1, nf), Drop(r, nf))

\* After the sign: ni integer digits, then an optional fraction.
DecInt(neg, body, ni) ==
    IF ni < Len(body) /\ body[ni + 1] = "."
    THEN DecFrac(neg, SubSeq(body, 1, ni), Drop(body, ni + 1),
                 DigitPrefix(Drop(body, ni + 1)))
    ELSE DecExp(neg, SubSeq(body, 1, ni), <<>>, Drop(body, ni))

DecBody(neg, body) ==
    IF Lower(body) \in {Chars("inf"), Chars("infinity")} THEN Special(neg, "inf")
    ELSE IF Lower(body) = Chars("nan") THEN Special(neg, "nan")
    ELSE DecInt(neg, body, DigitPrefix(body))

DecimalOf(s) ==
    IF s = <<>> THEN NotDecimal
    ELSE IF Head(s) \in {"+", "-"} THEN DecBody(Head(s) = "-", Tail(s))
    ELSE DecBody(FALSE, s)

F64OfDecimal(d) ==
    IF ~d.ok THEN [ok |-> FALSE, val |-> F64NaN]
    ELSE IF d.special = "inf" THEN [ok |-> TRUE, val |-> F64Inf(d.neg)]
    ELSE IF d.special = "nan" THEN [ok |-> TRUE, val |-> F64NaN]
    ELSE [ok |-> TRUE, val |-> DecToF64(d.neg, d.digits, d.k)]

\* <f64 as FromStr>::from_str: the nearest f64, or a ParseFloatError.
ParseF64(s) == F64OfDecimal(DecimalOf(s))

U64OfDigits(v) ==
    IF Len(v) > U64Bits THEN [ok |-> FALSE, val |-> <<>>] ELSE [ok |-> TRUE, val |-> v]

U64OfBody(body) ==
    IF body = <<>> \/ DigitPrefix(body) # Len(body) THEN [ok |-> FALSE, val |-> <<>>]
    ELSE U64OfDigits(DecBits(body, <<>>))

\* <u64 as FromStr>::from_str: an optional '+', then one or more decimal
\* digits, the value at most u64::MAX.
ParseU64(s) ==
    IF s # <<>> /\ Head(s) = "+" THEN U64OfBody(Tail(s)) ELSE U64OfBody(s)

\* ------------------------------------------------------------------------
\* Results, options and errors
\* ------------------------------------------------------------------------

\* Option<T>
None == [some |-> FALSE, v |-> ""]
Some(v) == [some |-> TRUE, v |-> v]

\* One link of an anyhow error chain: a message and the input text it quotes.
Link(msg, text) == [msg |-> msg, text |-> text]

\* Result<T>: Ok(val), or Err(chain) with the outermost context first.
Ok(val) == [ok |-> TRUE, val |-> val, err |-> <<>>]
Err(chain) == [ok |-> FALSE, val |-> <<>>, err |-> chain]

\* ------------------------------------------------------------------------
\* Value parsers of the commands module.  parse_condition_id and
\* parse_address are called by ctf.rs as super::parse_condition_id and
\* super::parse_address; their bodies are not part of the sources at hand and
\* follow the specification: 0x-prefixed hex of the exact byte length.
\* ------------------------------------------------------------------------

B256_BYTES == 32
ADDRESS_BYTES == 20

HexDigits ==
    Digits \cup {"a", "b", "c", "d", "e", "f", "A", "B", "C", "D", "E", "F"}

HexVal(c) ==
    CASE c \in Digits     -> DigitVal(c)
      [] c \in {"a", "A"} -> 10 [] c \in {"b", "B"} -> 11
      [] c \in {"c", "C"} -> 12 [] c \in {"d", "D"} -> 13
      [] c \in {"e", "E"} -> 14 [] c \in {"f", "F"} -> 15

\* The n bytes a 0x-prefixed string of 2n hex digits denotes.
HexBytes(s, n, what) ==
    IF Len(s) = 2 + 2 * n /\ s[1] = "0" /\ s[2] = "x"
       /\ \A i \in 3..Len(s) : s[i] \in HexDigits
    THEN Ok([i \in 1..n |-> 16 * HexVal(s[2 * i + 1]) + HexVal(s[2 * i + 2])])
    ELSE Err(<<Link(what, s)>>)

ParseHex(str, n, what) == HexBytes(Chars(str), n, what)

parse_condition_id(str) == ParseHex(str, B256_BYTES, "Invalid condition ID")

parse_address(str) == ParseHex(str, ADDRESS_BYTES, "Invalid address")

\* B256::default(): the all-zero identifier.
B256Default == [i \in 1..B256_BYTES |-> 0]

\* ------------------------------------------------------------------------
\* src/src/commands/ctf.rs: the helpers of execute
\* ------------------------------------------------------------------------

USDC_DECIMALS == 1000000

\* The product converted without the saturation of `as u64`.
ScaleUnclamped(val) ==
    IF val.cls = "fin" /\ ~val.neg /\ F64MulInt(val, 1000000).e >= 0
    THEN ShiftLeft(F64MulInt(val, 1000000).m, F64MulInt(val, 1000000).e)
    ELSE F64AsU64(F64MulInt(val, 1000000))

\* (val * USDC_DECIMALS as f64) as u64, then U256::from
ScaleToU256(val) == F64AsU64(F64MulInt(val, USDC_DECIMALS))

\* parse_usdc_amount without its ensure!(amount > 0.0, ...).
parse_usdc_amount_unchecked(amount) == Ok(ScaleToU256(amount))

\* parse_usdc_amount without the multiplication by USDC_DECIMALS.
parse_usdc_amount_unscaled(amount) ==
    IF ~F64Gt0(amount) THEN Err(<<Link("Amount must be positive", <<>>)>>)
    ELSE Ok(F64AsU64(amount))

parse_usdc_amount(amount) ==
    IF ~F64Gt0(amount) THEN Err(<<Link("Amount must be positive", <<>>)>>)
    ELSE Ok(ScaleToU256(amount))

\* The closure parse_usdc_amounts maps over the pieces:
\*   let trimmed = part.trim();
\*   let val: f64 = trimmed.parse().context(format!("Invalid amount: {trimmed}"))?;
\*   anyhow::ensure!(val >= 0.0, "Amount must be non-negative: {trimmed}");
\*   Ok(U256::from((val * USDC_DECIMALS as f64) as u64))
\* The closure without its ensure!(val >= 0.0, ...).
UsdcAmountUnchecked(trimmed, val) ==
    IF ~val.ok
    THEN Err(<<Link("Invalid amount", trimmed), Link("ParseFloatError", <<>>)>>)
    ELSE Ok(ScaleToU256(val.val))

UsdcAmountChecked(trimmed, val) ==
    IF ~val.ok
    THEN Err(<<Link("Invalid amount", trimmed), Link("ParseFloatError", <<>>)>>)
    ELSE IF ~F64Ge0(val.val)
    THEN Err(<<Link("Amount must be non-negative", trimmed)>>)
    ELSE Ok(ScaleToU256(val.val))

UsdcAmountTrimmed(trimmed) == UsdcAmountChecked(trimmed, ParseF64(trimmed))

UsdcAmountElem(part) == UsdcAmountTrimmed(Trim(part))

\* The closure parse_u256_csv maps over the pieces:
\*   let trimmed = part.trim();
\*   let val: u64 = trimmed.parse().context(format!("Invalid value: {trimmed}"))?;
\*   Ok(U256::from(val))
U256CsvChecked(trimmed, val) ==
    IF ~val.ok
    THEN Err(<<Link("Invalid value", trimmed), Link("ParseIntError", <<>>)>>)
    ELSE Ok(val.val)

U256CsvTrimmed(trimmed) == U256CsvChecked(trimmed, ParseU64(trimmed))

U256CsvElem(part) == U256CsvTrimmed(Trim(part))

\* A collect that keeps the pieces that parse (filter_map(Result::ok)).
CollectValid(results) ==
    Ok([i \in 1..Cardinality({j \in 1..Len(results) : results[j].ok}) |->
          results[CHOOSE j \in 1..Len(results) :
                    /\ results[j].ok
                    /\ Cardinality({h \in 1..j : results[h].ok}) = i].val])

\* A collect that runs over every piece and returns the error met last.
CollectLastError(results) ==
    LET bad == {i \in 1..Len(results) : ~results[i].ok}
    IN  IF bad = {} THEN Ok([i \in 1..Len(results) |-> results[i].val])
        ELSE results[CHOOSE i \in bad : \A j \in bad : i >= j]

\* Iterator::collect::<Result<Vec<_>>>() over the mapped pieces: the values
\* in order, or the error of the first piece that fails.
Collect(results) ==
    LET bad == {i \in 1..Len(results) : ~results[i].ok}
    IN  IF bad = {} THEN Ok([i \in 1..Len(results) |-> results[i].val])
        ELSE results[CHOOSE i \in bad : \A j \in bad : i <= j]

UsdcAmountsOf(parts) == Collect([i \in 1..Len(parts) |-> UsdcAmountElem(parts[i])])

parse_usdc_amounts(str) == UsdcAmountsOf(SplitComma(Chars(str)))

\* The pieces mapped from the last to the first (split(',').rev()).
U256CsvReversed(parts) ==
    Collect([i \in 1..Len(parts) |-> U256CsvElem(parts[Len(parts) + 1 - i])])

U256CsvOf(parts) == Collect([i \in 1..Len(parts) |-> U256CsvElem(parts[i])])

parse_u256_csv(str) == U256CsvOf(SplitComma(Chars(str)))

\* The parent falling back to the default when it does not parse
\* (unwrap_or_default).
parse_optional_parent_or_default(parent) ==
    IF parent.some /\ parse_condition_id(parent.v).ok
    THEN parse_condition_id(parent.v)
    ELSE Ok(B256Default)

\* The parent argument ignored.
parse_optional_parent_ignored(parent) == Ok(B256Default)

parse_optional_parent(parent) ==
    IF parent.some THEN parse_condition_id(parent.v) ELSE Ok(B256Default)

\* The default collateral taken when the text is no address.
resolve_collateral_or_default(collateral) ==
    IF parse_address(collateral).ok THEN parse_address(collateral)
    ELSE parse_address("0x2791Bca1f2de4661ED88A30C99A7a9449Aa84174")

resolve_collateral(collateral) == parse_address(collateral)

\* Index sets counted from zero.
default_partition_from_zero == <<U256From(0), U256From(1)>>

default_partition == <<U256From(1), U256From(2)>>

default_index_sets == <<U256From(1), U256From(2)>>


\* ------------------------------------------------------------------------
\* Inputs: the command lines one invocation may be given
\* ------------------------------------------------------------------------

\* 0x, 62 zeros, 01: a valid 32-byte identifier.
ID_ONE == "0x0000000000000000000000000000000000000000000000000000000000000001"
\* A valid 32-byte identifier whose digits are all zero.
ID_ZERO == "0x0000000000000000000000000000000000000000000000000000000000000000"
\* A non-hex digit at full length.
ID_NONHEX == "0x000000000000000000000000000000000000000000000000000000000000000g"

\* #[arg(long, default_value = ...)] collateral, and commands::USDC_ADDRESS_STR
DEFAULT_COLLATERAL == "0x2791Bca1f2de4661ED88A30C99A7a9449Aa84174"
USDC_ADDRESS_STR == "0x2791Bca1f2de4661ED88A30C99A7a9449Aa84174"

ConditionArgs == {ID_ONE, "garbage"}
CollateralArgs == {DEFAULT_COLLATERAL, "0x12"}
ParentArgs == {None, Some(ID_ONE), Some(ID_ZERO), Some("garbage"), Some(ID_NONHEX)}

\* --amount texts; clap turns each into an f64 before execute runs.
AmountArgs == {"10", "1.5", "0.01", "4.1", "0.0000001", "0", "-5", "NaN", "1e14"}

\* The pieces CSV inputs are made of.
CsvPieces == {"1", " 2 ", "", "x"}
AmountPieces == {"10", " 5", "0", "-5", "abc", "2.5"}

\* The texts of 1..n pieces from P joined by commas.
RECURSIVE Joined(_, _)
Joined(P, n) ==
    IF n = 1 THEN P
    ELSE LET shorter == Joined(P, n - 1)
         IN  shorter \cup {s \o "," \o p : s \in shorter, p \in P}

CsvArgs == Joined(CsvPieces, MaxElems)
AmountsArgs == Joined(AmountPieces, MaxElems)

OptCsvArgs == {None} \cup {Some(s) : s \in CsvArgs}

\* clap's value parser for `amount: f64` is f64::from_str; amount_text keeps
\* the text the f64 came from.
SplitArgs(kind) ==
    {[kind |-> kind, condition |-> c, amount_text |-> a,
      amount |-> ParseF64(Chars(a)).val, collateral |-> k, partition |-> p,
      parent_collection |-> q] :
        c \in ConditionArgs, a \in {x \in AmountArgs : ParseF64(Chars(x)).ok},
        k \in CollateralArgs, p \in OptCsvArgs, q \in ParentArgs}

Commands ==
    SplitArgs("Split") \cup SplitArgs("Merge")
    \cup [kind : {"Redeem"}, condition : ConditionArgs, collateral : CollateralArgs,
          index_sets : OptCsvArgs, parent_collection : ParentArgs]
    \cup [kind : {"RedeemNegRisk"}, condition : ConditionArgs, amounts : AmountsArgs]
    \cup [kind : {"ConditionId"}, oracle : CollateralArgs, question : ConditionArgs,
          outcomes : {2, 3}]
    \cup [kind : {"CollectionId"}, condition : ConditionArgs, index_set : {1, 2},
          parent_collection : ParentArgs]
    \cup [kind : {"PositionId"}, collateral : CollateralArgs, collection : ConditionArgs]

\* ------------------------------------------------------------------------
\* execute: one invocation of a CTF sub-command
\* ------------------------------------------------------------------------

VARIABLES
    cmd,          \* args.command, as clap parsed it
    private_key,  \* execute's private_key argument
    pc,           \* the index in Steps(cmd.kind) of the next statement; 0 = returned
    loc,          \* the local variables bound so far
    log,          \* the functions called so far, in order
    calls,        \* the operation calls issued to the SDK client, in order
    outcome,      \* what execute returned
    printed,      \* what the output module was given to print
    stderr,       \* the errors output::print_error was given, in order
    exit_code,    \* the ExitCode main returned; "running" before it returns
    shell_pc,     \* where run_shell is: "off" (not started), "readline",
                  \* "run" (awaiting crate::run), "exited"
    read,         \* the command lines given so far: the arguments of main, then
                  \* the lines rl.readline has returned (history)
    completed,    \* the commands the shell has run to their end (history)
    config,       \* the config file: <<>> when there is none, else <<contents>>
    config_before \* the config file when the command started (history)

vars == <<cmd, private_key, pc, loc, log, calls, outcome, printed,
          stderr, exit_code, shell_pc, read, completed, config, config_before>>

\* The config file, which only the wallet commands write.

\* The state of main and of the shell, which execute does not touch.
host_vars == <<stderr, exit_code, shell_pc, read, completed, config, config_before>>

\* The statements of each arm of execute, in source order:
\* <<function, argument field, local bound>>.
MutatingTail(client, op) ==
    << <<"create_provider", "", "provider">>, <<client, "", "client">>,
       <<"build", "", "req">>, <<op, "", "resp">>, <<"print_tx_result", "", "">> >>

QueryTail(op, printer) ==
    << <<"create_readonly_provider", "", "provider">>, <<"Client::new", "", "client">>,
       <<"build", "", "req">>, <<op, "", "resp">>, <<printer, "", "">> >>

\* The provider created before the inputs are checked.
SplitHeadProviderFirst ==
    << <<"create_provider", "", "provider">>,
       <<"parse_condition_id", "condition", "condition_id">>,
       <<"parse_usdc_amount", "amount", "usdc_amount">>,
       <<"resolve_collateral", "collateral", "collateral_addr">>,
       <<"parse_optional_parent", "parent_collection", "parent">>,
       <<"partition", "partition", "partition">> >>

SplitHead ==
    << <<"parse_condition_id", "condition", "condition_id">>,
       <<"parse_usdc_amount", "amount", "usdc_amount">>,
       <<"resolve_collateral", "collateral", "collateral_addr">>,
       <<"parse_optional_parent", "parent_collection", "parent">>,
       <<"partition", "partition", "partition">> >>

Steps(kind) ==
    CASE kind = "Split" -> SplitHead \o MutatingTail("Client::new", "split_position")
      [] kind = "Merge" -> SplitHead \o MutatingTail("Client::new", "merge_positions")
      [] kind = "Redeem" ->
           << <<"parse_condition_id", "condition", "condition_id">>,
              <<"resolve_collateral", "collateral", "collateral_addr">>,
              <<"parse_optional_parent", "parent_collection", "parent">>,
              <<"partition", "index_sets", "index_sets">> >>
           \o MutatingTail("Client::new", "redeem_positions")
      [] kind = "RedeemNegRisk" ->
           << <<"parse_condition_id", "condition", "condition_id">>,
              <<"parse_usdc_amounts", "amounts", "amounts">> >>
           \o MutatingTail("Client::with_neg_risk", "redeem_neg_risk")
      [] kind = "ConditionId" ->
           << <<"parse_address", "oracle", "oracle_addr">>,
              <<"parse_condition_id", "question", "question_id">> >>
           \o QueryTail("condition_id", "print_condition_id")
      [] kind = "CollectionId" ->
           << <<"parse_condition_id", "condition", "condition_id">>,
              <<"parse_optional_parent", "parent_collection", "parent">> >>
           \o QueryTail("collection_id", "print_collection_id")
      [] kind = "PositionId" ->
           << <<"parse_address", "collateral", "collateral_addr">>,
              <<"parse_condition_id", "collection", "collection_id">> >>
           \o QueryTail("position_id", "print_position_id")

Running == pc > 0
Step == Steps(cmd.kind)[pc]
At(fn) == Running /\ Step[1] = fn

\* The label .context(...) puts on a failed operation call; "" for none.
ContextLabel(op) ==
    CASE op = "split_position"  -> "Split position failed"
      [] op = "merge_positions" -> "Merge positions failed"
      [] op = "redeem_positions" -> "Redeem positions failed"
      [] op = "redeem_neg_risk" -> "Redeem neg-risk positions failed"
      [] OTHER -> ""

NoOutcome == [done |-> FALSE, ok |-> FALSE, err |-> <<>>]
\* An error swallowed: execute returning Ok(()) whatever r is.
ReturnedOk(r) == [done |-> TRUE, ok |-> TRUE, err |-> r.err]
Returned(r) == [done |-> TRUE, ok |-> r.ok, err |-> r.err]

\* `let local = r?;`: bind the value and go on, or return the error.
Bind(r) ==
    /\ log' = Append(log, Step[1])
    /\ IF r.ok
       THEN /\ loc' = loc @@ (Step[3] :> r.val)
            /\ pc' = pc + 1
            /\ outcome' = outcome
       ELSE /\ loc' = loc
            /\ pc' = 0
            /\ outcome' = Returned(r)
    /\ UNCHANGED <<cmd, private_key, calls, printed>>
    /\ UNCHANGED host_vars

\* execute is entered: nothing bound, called or returned yet.
Entered ==
    /\ pc = 1
    /\ loc = <<>>
    /\ log = <<>>
    /\ calls = <<>>
    /\ outcome = NoOutcome
    /\ printed = <<>>

\* main has parsed the command line and awaits run; no shell was started.
MainAwaits ==
    /\ stderr = <<>>
    /\ exit_code = "running"
    /\ shell_pc = "off"
    /\ read = <<>>
    /\ completed = <<>>
    /\ config = <<>>
    /\ config_before = <<>>

Init ==
    /\ cmd \in Commands
    /\ private_key \in {None, Some("0xkey")}
    /\ Entered
    /\ MainAwaits


\* let x = super::parse_condition_id(&field)?;
ParseConditionId ==
    /\ At("parse_condition_id")
    /\ Bind(parse_condition_id(cmd[Step[2]]))

\* let x = super::parse_address(&field)?;
ParseAddress ==
    /\ At("parse_address")
    /\ Bind(parse_address(cmd[Step[2]]))

\* let usdc_amount = parse_usdc_amount(amount)?;
ParseUsdcAmount ==
    /\ At("parse_usdc_amount")
    /\ Bind(parse_usdc_amount(cmd.amount))

\* let amounts = parse_usdc_amounts(&amounts)?;
ParseUsdcAmounts ==
    /\ At("parse_usdc_amounts")
    /\ Bind(parse_usdc_amounts(cmd.amounts))

\* let collateral_addr = resolve_collateral(&collateral)?;
ResolveCollateral ==
    /\ At("resolve_collateral")
    /\ Bind(resolve_collateral(cmd.collateral))

\* let parent = parse_optional_parent(parent_collection.as_deref())?;
ParseOptionalParent ==
    /\ At("parse_optional_parent")
    /\ Bind(parse_optional_parent(cmd.parent_collection))

\* The default taken when the list given does not parse.
BuildPartitionOrDefault(opt, field) ==
    IF opt.some /\ parse_u256_csv(opt.v).ok THEN parse_u256_csv(opt.v)
    ELSE IF field = "index_sets" THEN Ok(default_index_sets)
    ELSE Ok(default_partition)

\* match partition { Some(p) => parse_u256_csv(&p)?, None => default_partition() }
\* and the same match on index_sets in the Redeem arm.
BuildPartition(opt, field) ==
    IF opt.some THEN parse_u256_csv(opt.v)
    ELSE IF field = "index_sets" THEN Ok(default_index_sets)
    ELSE Ok(default_partition)

Partition ==
    /\ At("partition")
    /\ Bind(BuildPartition(cmd[Step[2]], Step[2]))

\* let provider = auth::create_provider(private_key).await?;
\* auth is an external collaborator: it yields a signer or fails.
CreateProvider ==
    /\ At("create_provider")
    /\ \E ok \in BOOLEAN :
         Bind(IF ok THEN Ok([kind |-> "signer", key |-> private_key])
              ELSE Err(<<Link("create_provider", <<>>)>>))

\* The id queries given the signer built from the private key.
CreateReadonlyProviderSigned ==
    /\ At("create_readonly_provider")
    /\ \E ok \in BOOLEAN :
         Bind(IF ok THEN Ok([kind |-> "signer", key |-> private_key])
              ELSE Err(<<Link("create_provider", <<>>)>>))

\* let provider = auth::create_readonly_provider().await?;
CreateReadonlyProvider ==
    /\ At("create_readonly_provider")
    /\ \E ok \in BOOLEAN :
         Bind(IF ok THEN Ok([kind |-> "readonly", key |-> None])
              ELSE Err(<<Link("create_readonly_provider", <<>>)>>))

\* Every constructor selecting the default configuration.
ClientConfigDefault(ctor) == "default"

\* The configuration each constructor of ctf::Client selects.
ClientConfig(ctor) == IF ctor = "Client::with_neg_risk" THEN "neg_risk" ELSE "default"

\* let client = ctf::Client::new(provider, POLYGON)?;  (or with_neg_risk)
ClientNew ==
    /\ Running /\ Step[1] \in {"Client::new", "Client::with_neg_risk"}
    /\ \E ok \in BOOLEAN :
         Bind(IF ok THEN Ok([config |-> ClientConfig(Step[1]), provider |-> loc.provider])
              ELSE Err(<<Link(Step[1], <<>>)>>))

\* The request each arm builds from its locals; build() cannot fail.
Request(kind) ==
    CASE kind = "Split" ->
           [type |-> "SplitPositionRequest", collateral_token |-> loc.collateral_addr,
            parent_collection_id |-> loc.parent, condition_id |-> loc.condition_id,
            partition |-> loc.partition, amount |-> loc.usdc_amount]
      [] kind = "Merge" ->
           [type |-> "MergePositionsRequest", collateral_token |-> loc.collateral_addr,
            parent_collection_id |-> loc.parent, condition_id |-> loc.condition_id,
            partition |-> loc.partition, amount |-> loc.usdc_amount]
      [] kind = "Redeem" ->
           [type |-> "RedeemPositionsRequest", collateral_token |-> loc.collateral_addr,
            parent_collection_id |-> loc.parent, condition_id |-> loc.condition_id,
            index_sets |-> loc.index_sets]
      [] kind = "RedeemNegRisk" ->
           [type |-> "RedeemNegRiskRequest", condition_id |-> loc.condition_id,
            amounts |-> loc.amounts]
      [] kind = "ConditionId" ->
           [type |-> "ConditionIdRequest", oracle |-> loc.oracle_addr,
            question_id |-> loc.question_id,
            outcome_slot_count |-> U256From(cmd.outcomes)]
      [] kind = "CollectionId" ->
           [type |-> "CollectionIdRequest", parent_collection_id |-> loc.parent,
            condition_id |-> loc.condition_id, index_set |-> U256From(cmd.index_set)]
      [] kind = "PositionId" ->
           [type |-> "PositionIdRequest", collateral_token |-> loc.collateral_addr,
            collection_id |-> loc.collection_id]

\* let req = XRequest::builder()...build();
BuildRequest ==
    /\ At("build")
    /\ Bind(Ok(Request(cmd.kind)))

\* The operation call issued again after it failed (a retry loop).
CallOperationRetried ==
    /\ Running /\ Step[3] = "resp"
    /\ Len(calls) < 3
    /\ calls' = Append(calls, [op |-> Step[1], req |-> loc.req, client |-> loc.client])
    /\ log' = Append(log, Step[1])
    /\ \E ok \in BOOLEAN :
         IF ok
         THEN /\ loc' = loc @@ ("resp" :> [op |-> Step[1]])
              /\ pc' = pc + 1
         ELSE /\ loc' = loc
              /\ pc' = pc
    /\ UNCHANGED <<cmd, private_key, printed, outcome>>
    /\ UNCHANGED host_vars

\* let resp = client.op(&req).await.context(label)?;  (no context on the
\* three id queries).  The SDK client is external: the call succeeds or fails.
CallOperation ==
    /\ Running /\ Step[3] = "resp"
    /\ calls' = Append(calls, [op |-> Step[1], req |-> loc.req, client |-> loc.client])
    /\ log' = Append(log, Step[1])
    /\ \E ok \in BOOLEAN :
         IF ok
         THEN /\ loc' = loc @@ ("resp" :> [op |-> Step[1]])
              /\ pc' = pc + 1
              /\ outcome' = outcome
         ELSE /\ loc' = loc
              /\ pc' = 0
              /\ outcome' =
                   Returned(Err((IF ContextLabel(Step[1]) = "" THEN <<>>
                                 ELSE <<Link(ContextLabel(Step[1]), <<>>)>>)
                                \o <<Link("sdk error", <<>>)>>))
    /\ UNCHANGED <<cmd, private_key, printed>>
    /\ UNCHANGED host_vars

\* ctf_output::print_tx_result(label, resp.transaction_hash, resp.block_number,
\* &output) or print_*_id(resp.*, &output): the value of the arm.
PrintResult ==
    /\ Running /\ Step[3] = ""
    /\ log' = Append(log, Step[1])
    /\ \E ok \in BOOLEAN :
         /\ printed' = IF ok THEN Append(printed, loc.resp) ELSE printed
         /\ outcome' = Returned(IF ok THEN Ok(<<>>) ELSE Err(<<Link("output", <<>>)>>))
    /\ pc' = 0
    /\ UNCHANGED <<cmd, private_key, loc, calls>>
    /\ UNCHANGED host_vars

Next ==
    \/ ParseConditionId
    \/ ParseAddress
    \/ ParseUsdcAmount
    \/ ParseUsdcAmounts
    \/ ResolveCollateral
    \/ ParseOptionalParent
    \/ Partition
    \/ CreateProvider
    \/ CreateReadonlyProvider
    \/ ClientNew
    \/ BuildRequest
    \/ CallOperation
    \/ PrintResult

Spec == Init /\ [][Next]_vars

\* ------------------------------------------------------------------------
\* src/src/main.rs: main, around one invocation of run
\* ------------------------------------------------------------------------

\* The command lines main is followed on: each sub-command, with inputs that
\* pass and inputs that fail.
MainCommands ==
    {[kind |-> kind, condition |-> c, amount_text |-> a,
      amount |-> ParseF64(Chars(a)).val, collateral |-> DEFAULT_COLLATERAL,
      partition |-> None, parent_collection |-> None] :
        kind \in {"Split", "Merge"}, c \in ConditionArgs, a \in {"10", "0"}}
    \cup [kind : {"Redeem"}, condition : {ID_ONE}, collateral : CollateralArgs,
          index_sets : {None, Some("1,2"), Some("x")}, parent_collection : {None}]
    \cup [kind : {"RedeemNegRisk"}, condition : {ID_ONE}, amounts : {"10,0", "-5"}]
    \cup [kind : {"ConditionId"}, oracle : CollateralArgs, question : {ID_ONE},
          outcomes : {2}]
    \cup [kind : {"CollectionId"}, condition : {ID_ONE}, index_set : {1},
          parent_collection : {None, Some("garbage")}]
    \cup [kind : {"PositionId"}, collateral : {DEFAULT_COLLATERAL},
          collection : ConditionArgs]

\* let cli = Cli::parse(); ... run(cli).await entered, down to ctf::execute.
MainInit ==
    /\ cmd \in MainCommands
    /\ private_key \in {None, Some("0xkey")}
    /\ Entered
    /\ MainAwaits

\* run(cli) has returned to main.
RunReturned == pc = 0 /\ outcome.done /\ shell_pc = "off" /\ exit_code = "running"

\* if let Err(e) = run(cli).await { output::print_error(&e, output); ...
MainPrintError ==
    /\ RunReturned /\ ~outcome.ok /\ stderr = <<>>
    /\ stderr' = Append(stderr, outcome.err)
    /\ UNCHANGED <<cmd, private_key, pc, loc, log, calls, outcome, printed,
                   exit_code, shell_pc, read, completed, config, config_before>>

\* main returning ExitCode::SUCCESS whatever run returned.
MainExitSuccess ==
    /\ RunReturned /\ (outcome.ok \/ stderr # <<>>)
    /\ exit_code' = "SUCCESS"
    /\ UNCHANGED <<cmd, private_key, pc, loc, log, calls, outcome, printed,
                   stderr, shell_pc, read, completed, config, config_before>>

\* ... return ExitCode::FAILURE; }  ExitCode::SUCCESS
MainExit ==
    /\ RunReturned /\ (outcome.ok \/ stderr # <<>>)
    /\ exit_code' = IF outcome.ok THEN "SUCCESS" ELSE "FAILURE"
    /\ UNCHANGED <<cmd, private_key, pc, loc, log, calls, outcome, printed,
                   stderr, shell_pc, read, completed, config, config_before>>

MainNext ==
    \/ Next
    \/ MainPrintError
    \/ MainExit

MainSpec == MainInit /\ [][MainNext]_vars

\* ------------------------------------------------------------------------
\* src/src/shell.rs: the interactive shell
\* ------------------------------------------------------------------------

\* The string made of the characters cs.
RECURSIVE Str(_)
Str(cs) ==
    IF cs = <<>> THEN ""
    ELSE IF Len(cs) = 1 THEN cs[1]
    ELSE Str(SubSeq(cs, 1, Len(cs) \div 2))
         \o Str(SubSeq(cs, Len(cs) \div 2 + 1, Len(cs)))

\* split_args: the arguments of a line.  A '"' toggles in_quotes and is
\* dropped; a ' ' outside quotes ends the current argument; an argument is
\* pushed only if it is not empty.
SegmentsAt(s, seps) ==
    LET pos(j) == IF j = 0 THEN 0
                  ELSE IF j > Cardinality(seps) THEN Len(s) + 1
                  ELSE CHOOSE i \in seps : Cardinality({k \in seps : k <= i}) = j
    IN  [j \in 1..(Cardinality(seps) + 1) |->
            SelectSeq(SubSeq(s, pos(j - 1) + 1, pos(j) - 1), LAMBDA c : c # "\"")]

NonEmptyStrings(segs) ==
    LET kept == SelectSeq(segs, LAMBDA g : g # <<>>)
    IN  [i \in 1..Len(kept) |-> Str(kept[i])]

split_args(s) ==
    NonEmptyStrings(SegmentsAt(s,
        {i \in 1..Len(s) :
            /\ s[i] = " "
            /\ Cardinality({j \in 1..(i - 1) : s[j] = "\""}) % 2 = 0}))

\* --- Cli::try_parse_from: clap's derive parser for Cli (main.rs:12-29),
\* Commands (main.rs:31-67) and CtfCommand (ctf.rs:23-118), on the forms
\* `ctf <sub-command> {--flag value | --flag=value}`.

\* The sub-commands of Commands, in kebab case.
TopCommands ==
    {"setup", "shell", "markets", "events", "tags", "series", "comments",
     "profiles", "sports", "approve", "clob", "ctf", "data", "bridge", "wallet",
     "status", "upgrade"}

\* The variant of CtfCommand a sub-command name selects; "" for none.
KindOf(sub) ==
    CASE sub = "split" -> "Split"
      [] sub = "merge" -> "Merge"
      [] sub = "redeem" -> "Redeem"
      [] sub = "redeem-neg-risk" -> "RedeemNegRisk"
      [] sub = "condition-id" -> "ConditionId"
      [] sub = "collection-id" -> "CollectionId"
      [] sub = "position-id" -> "PositionId"
      [] OTHER -> ""

\* The field a flag sets; "" for an unknown flag.
FlagField(flag) ==
    CASE flag = "--condition" -> "condition"
      [] flag = "--amount" -> "amount"
      [] flag = "--collateral" -> "collateral"
      [] flag = "--partition" -> "partition"
      [] flag = "--parent-collection" -> "parent_collection"
      [] flag = "--index-sets" -> "index_sets"
      [] flag = "--amounts" -> "amounts"
      [] flag = "--oracle" -> "oracle"
      [] flag = "--question" -> "question"
      [] flag = "--outcomes" -> "outcomes"
      [] flag = "--index-set" -> "index_set"
      [] flag = "--collection" -> "collection"
      [] flag \in {"--output", "-o"} -> "output"
      [] flag = "--private-key" -> "private_key"
      [] flag = "--signature-type" -> "signature_type"
      [] OTHER -> ""

\* The global arguments of Cli.
GlobalFields == {"output", "private_key", "signature_type"}

\* The arguments of each variant that must be given, and those that may be.
RequiredFields(kind) ==
    CASE kind \in {"Split", "Merge"} -> {"condition", "amount"}
      [] kind = "Redeem" -> {"condition"}
      [] kind = "RedeemNegRisk" -> {"condition", "amounts"}
      [] kind = "ConditionId" -> {"oracle", "question", "outcomes"}
      [] kind = "CollectionId" -> {"condition", "index_set"}
      [] kind = "PositionId" -> {"collection"}
      [] OTHER -> {}

OptionalFields(kind) ==
    CASE kind \in {"Split", "Merge"} -> {"collateral", "partition", "parent_collection"}
      [] kind = "Redeem" -> {"collateral", "index_sets", "parent_collection"}
      [] kind = "RedeemNegRisk" -> {}
      [] kind = "ConditionId" -> {}
      [] kind = "CollectionId" -> {"parent_collection"}
      [] kind = "PositionId" -> {"collateral"}
      [] OTHER -> {}

\* The position of the first '=' of a token; 0 for none.
EqAt(cs) ==
    IF \E i \in 1..Len(cs) : cs[i] = "="
    THEN CHOOSE i \in 1..Len(cs) : cs[i] = "=" /\ \A j \in 1..(i - 1) : cs[j] # "="
    ELSE 0

\* One argument read from the tokens: `--flag=value` is one token, `--flag
\* value` two, and there the value must not look like a flag.
FlagWithEq(tok, eq) ==
    [field |-> FlagField(SubSeq(tok, 1, eq - 1)), value |-> SubSeq(tok, eq + 1, Len(tok)),
     ok |-> TRUE]

FlagThenValue(flag, value) ==
    [field |-> FlagField(flag), value |-> value,
     ok |-> value # "" /\ SubSeq(value, 1, 1) # "-"]

RECURSIVE FlagPairs(_)
FlagPairs(ts) ==
    IF ts = <<>> THEN <<>>
    ELSE IF EqAt(Chars(ts[1])) > 0
    THEN <<FlagWithEq(ts[1], EqAt(Chars(ts[1])))>> \o FlagPairs(Tail(ts))
    ELSE IF Len(ts) = 1 THEN <<[field |-> FlagField(ts[1]), value |-> "", ok |-> FALSE]>>
    ELSE <<FlagThenValue(ts[1], ts[2])>> \o FlagPairs(Drop(ts, 2))

\* The value given for a field, as an Option.
Given(pairs, field) ==
    IF \E i \in 1..Len(pairs) : pairs[i].field = field
    THEN Some(pairs[CHOOSE i \in 1..Len(pairs) : pairs[i].field = field].value)
    ELSE None

\* The value parser of each field accepts the text.
ValueParses(field, value) ==
    CASE field = "amount" -> ParseF64(Chars(value)).ok
      [] field \in {"outcomes", "index_set"} -> ParseU64(Chars(value)).ok
      [] field = "output" -> value \in {"table", "json"}
      [] OTHER -> TRUE

\* The arguments are well formed for the variant: every one a known argument
\* with a value its parser accepts, none twice, the required ones present.
PairsOk(kind, pairs) ==
    /\ \A i \in 1..Len(pairs) :
         /\ pairs[i].ok
         /\ pairs[i].field \in RequiredFields(kind) \cup OptionalFields(kind)
                               \cup GlobalFields
         /\ ValueParses(pairs[i].field, pairs[i].value)
         /\ \A j \in 1..Len(pairs) : pairs[j].field = pairs[i].field => j = i
    /\ \A f \in RequiredFields(kind) : Given(pairs, f).some

\* A given value, or the default_value of the argument.
OrDefault(opt, default) == IF opt.some THEN opt.v ELSE default

\* The CtfCommand the arguments build.
CommandOf(kind, pairs) ==
    CASE kind \in {"Split", "Merge"} ->
           [kind |-> kind, condition |-> Given(pairs, "condition").v,
            amount_text |-> Given(pairs, "amount").v,
            amount |-> ParseF64(Chars(Given(pairs, "amount").v)).val,
            collateral |-> OrDefault(Given(pairs, "collateral"), DEFAULT_COLLATERAL),
            partition |-> Given(pairs, "partition"),
            parent_collection |-> Given(pairs, "parent_collection")]
      [] kind = "Redeem" ->
           [kind |-> kind, condition |-> Given(pairs, "condition").v,
            collateral |-> OrDefault(Given(pairs, "collateral"), DEFAULT_COLLATERAL),
            index_sets |-> Given(pairs, "index_sets"),
            parent_collection |-> Given(pairs, "parent_collection")]
      [] kind = "RedeemNegRisk" ->
           [kind |-> kind, condition |-> Given(pairs, "condition").v,
            amounts |-> Given(pairs, "amounts").v]
      [] kind = "ConditionId" ->
           [kind |-> kind, oracle |-> Given(pairs, "oracle").v,
            question |-> Given(pairs, "question").v,
            outcomes |-> BitsInt(ParseU64(Chars(Given(pairs, "outcomes").v)).val)]
      [] kind = "CollectionId" ->
           [kind |-> kind, condition |-> Given(pairs, "condition").v,
            index_set |-> BitsInt(ParseU64(Chars(Given(pairs, "index_set").v)).val),
            parent_collection |-> Given(pairs, "parent_collection")]
      [] kind = "PositionId" ->
           [kind |-> kind,
            collateral |-> OrDefault(Given(pairs, "collateral"), DEFAULT_COLLATERAL),
            collection |-> Given(pairs, "collection").v]

ClapError == [ok |-> FALSE, command |-> [kind |-> ""], private_key |-> None]

CliOf(kind, pairs) ==
    IF ~PairsOk(kind, pairs) THEN ClapError
    ELSE [ok |-> TRUE, command |-> CommandOf(kind, pairs),
          private_key |-> Given(pairs, "private_key")]

\* The global arguments standing before the next sub-command name, and the
\* tokens from that name on.  (`-ojson`, a short flag with its value attached,
\* is not among the forms read.)
RECURSIVE LeadingGlobals(_)
GlobalsThen(pair, r) == [pairs |-> <<pair>> \o r.pairs, rest |-> r.rest]

LeadingGlobals(ts) ==
    IF ts = <<>> THEN [pairs |-> <<>>, rest |-> <<>>]
    ELSE IF EqAt(Chars(ts[1])) > 0
            /\ FlagWithEq(ts[1], EqAt(Chars(ts[1]))).field \in GlobalFields
    THEN GlobalsThen(FlagWithEq(ts[1], EqAt(Chars(ts[1]))), LeadingGlobals(Tail(ts)))
    ELSE IF FlagField(ts[1]) \in GlobalFields /\ Len(ts) >= 2
    THEN GlobalsThen(FlagThenValue(ts[1], ts[2]), LeadingGlobals(Drop(ts, 2)))
    ELSE [pairs |-> <<>>, rest |-> ts]

\* A sub-command of Commands other than ctf, with the global arguments around
\* it.  shell and setup take no arguments of their own; the arguments of the
\* others are not read.
OtherCli(name, pairs) ==
    IF name \in {"shell", "setup"}
       /\ ~(PairsOk("", pairs) /\ \A i \in 1..Len(pairs) : pairs[i].field \in GlobalFields)
    THEN ClapError
    ELSE [ok |-> TRUE, command |-> [kind |-> name],
          private_key |-> Given(pairs, "private_key")]

\* `ctf`, then the sub-command of CtfCommand and its arguments.
CtfCli(globals, g) ==
    IF g.rest = <<>> \/ KindOf(g.rest[1]) = "" THEN ClapError
    ELSE CliOf(KindOf(g.rest[1]), globals \o g.pairs \o FlagPairs(Tail(g.rest)))

TopCli(g) ==
    IF g.rest = <<>> \/ g.rest[1] \notin TopCommands THEN ClapError
    ELSE IF g.rest[1] # "ctf" THEN OtherCli(g.rest[1], g.pairs \o FlagPairs(Tail(g.rest)))
    ELSE CtfCli(g.pairs, LeadingGlobals(Tail(g.rest)))

\* Cli::try_parse_from(&full_args): full_args[1] is the program name.
try_parse_from(full_args) ==
    IF full_args = <<>> THEN ClapError ELSE TopCli(LeadingGlobals(Tail(full_args)))

\* --- run_shell: the read-eval loop.  Each call of rl.readline returns what
\* the user does at the prompt: a line, Ctrl-C, or the end of the input;
\* `read` lists the items returned so far and `completed` the commands that
\* have returned to the loop, each with the line that started it.

\* The most lines a session types.
MaxLines == 3

\* Ok(line), Err(ReadlineError::Interrupted), Err(ReadlineError::Eof) and any
\* other Err(e).
Line(s) == [ev |-> "Ok", line |-> s]
Interrupted == [ev |-> "Interrupted", line |-> ""]
EndItems == {[ev |-> "Eof", line |-> ""], [ev |-> "Err", line |-> ""]}

SPLIT_10 == "ctf split --condition " \o ID_ONE \o " --amount 10"
SPLIT_0 == "ctf split --condition " \o ID_ONE \o " --amount=0 --private-key 0xkey"

\* What the user does at the prompt: two commands that pass their input
\* checks, two that fail them, a line the parser rejects, the two words the
\* shell answers itself, and Ctrl-C.
ShellItems ==
    {Line(SPLIT_10),
     Line("  " \o SPLIT_0 \o " "),
     Line("ctf redeem-neg-risk --condition " \o ID_ONE \o " --amounts \"10, 0\""),
     Line("ctf position-id --collection " \o ID_ONE),
     Line("ctf split --amount 10"),
     Line("shell"),
     Line("quit"),
     Interrupted}

Println(text) == [println |-> text]

BANNER == Println("Type 'help' for commands, 'exit' to quit.")
NoEditor == <<Link("rustyline::DefaultEditor::new", <<>>)>>

\* run_shell entered: the banner is out, the editor made, no command run.
ShellInit ==
    /\ shell_pc = "readline"
    /\ read = <<>>
    /\ completed = <<>>
    /\ cmd = [kind |-> ""]
    /\ private_key = None
    /\ pc = 0
    /\ loc = <<>>
    /\ log = <<>>
    /\ calls = <<>>
    /\ outcome = NoOutcome
    /\ printed = <<BANNER>>
    /\ stderr = <<>>
    /\ exit_code = "running"
    /\ config = <<>>
    /\ config_before = <<>>

\* The loop is at rl.readline.
AwaitingLineOrRunning == shell_pc \in {"readline", "run"}
AwaitingLine == shell_pc = "readline"

\* `continue`, after printing `out` and `err` if any.
Continue(out, err) ==
    /\ shell_pc' = "readline"
    /\ printed' = printed \o out
    /\ stderr' = stderr \o err
    /\ UNCHANGED <<cmd, private_key, pc, loc, log, calls, outcome>>

\* The run_shell calls in progress: those that printed their banner and made
\* their editor, less those that said goodbye.
Count(b) == IF b THEN 1 ELSE 0

RECURSIVE Occurrences(_, _)
Occurrences(s, x) ==
    IF s = <<>> THEN 0 ELSE Count(Head(s) = x) + Occurrences(Tail(s), x)

Depth ==
    Occurrences(printed, BANNER) - Occurrences(printed, Println("Goodbye!"))
    - Occurrences(stderr, NoEditor)

\* `break`, then println!("Goodbye!") and Ok(()): the process is left when
\* main started this shell; a shell started from a shell returns to the loop
\* that awaits it.
Break(err) ==
    /\ shell_pc' = IF Depth > 1 THEN "readline" ELSE "exited"
    /\ printed' = Append(printed, Println("Goodbye!"))
    /\ stderr' = stderr \o err
    /\ UNCHANGED <<cmd, private_key, pc, loc, log, calls, outcome>>

\* crate::run(cli) entered with the key of an earlier command when the line
\* gives none.
ShellEnterKeepingKey(cli) ==
    /\ shell_pc' = "run"
    /\ cmd' = cli.command
    /\ private_key' = IF cli.private_key.some THEN cli.private_key ELSE private_key
    /\ pc' = 1
    /\ loc' = <<>>
    /\ log' = <<>>
    /\ calls' = <<>>
    /\ outcome' = NoOutcome
    /\ UNCHANGED <<printed, stderr>>

\* crate::run(cli).await entered, down to ctf::execute(args, output, key).
ShellEnter(cli) ==
    /\ shell_pc' = "run"
    /\ cmd' = cli.command
    /\ private_key' = cli.private_key
    /\ pc' = 1
    /\ loc' = <<>>
    /\ log' = <<>>
    /\ calls' = <<>>
    /\ outcome' = NoOutcome
    /\ UNCHANGED <<printed, stderr>>

\* run(cli) with Commands::Shell: shell::run_shell() prints its banner, makes
\* its editor or returns the error (which the awaiting loop prints), and
\* reads the lines from then on.
ShellNested(cli) ==
    /\ cmd' = cli.command
    /\ private_key' = cli.private_key
    /\ shell_pc' = "readline"
    /\ printed' = Append(printed, BANNER)
    /\ \E made \in BOOLEAN : stderr' = IF made THEN stderr ELSE Append(stderr, NoEditor)
    /\ UNCHANGED <<pc, loc, log, calls, outcome>>

\* run(cli) with a command of another module (setup, markets, ...): it runs
\* outside this model and returns Ok or an error.
ShellRunOther(cli) ==
    /\ shell_pc' = "run"
    /\ cmd' = cli.command
    /\ private_key' = cli.private_key
    /\ pc' = 0
    /\ loc' = <<>>
    /\ log' = <<cli.command.kind>>
    /\ calls' = <<>>
    /\ \E ok \in BOOLEAN :
         outcome' = Returned(IF ok THEN Ok(<<>>) ELSE Err(<<Link(cli.command.kind, <<>>)>>))
    /\ UNCHANGED <<printed, stderr>>

\* The parse error printed and the loop left.
EvaluateOrBreak(cli) ==
    IF ~cli.ok THEN Break(<<<<Link("clap error", <<>>)>>>>)
    ELSE IF cli.command.kind = "shell" THEN ShellNested(cli)
    ELSE IF cli.command.kind \in TopCommands THEN ShellRunOther(cli)
    ELSE ShellEnter(cli)

\* match crate::Cli::try_parse_from(&full_args) { Ok(cli) => run(cli), Err(e) => e.print() }
Evaluate(cli) ==
    IF ~cli.ok THEN Continue(<<>>, <<<<Link("clap error", <<>>)>>>>)
    ELSE IF cli.command.kind = "shell" THEN ShellNested(cli)
    ELSE IF cli.command.kind \in TopCommands THEN ShellRunOther(cli)
    ELSE ShellEnter(cli)

\* The two commands the shell answers itself, then the parser.
Dispatch(full_args) ==
    IF Len(full_args) >= 2 /\ full_args[2] = "shell"
    THEN Continue(<<Println("Already in shell mode.")>>, <<>>)
    ELSE IF Len(full_args) >= 2 /\ full_args[2] = "setup"
    THEN Continue(<<Println("Run 'polymarket setup' outside the shell.")>>, <<>>)
    ELSE Evaluate(try_parse_from(full_args))

\* let line = line.trim(); empty lines, exit and quit, then the arguments.
OnLine(line) ==
    IF line = <<>> THEN Continue(<<>>, <<>>)
    ELSE IF Str(line) \in {"exit", "quit"} THEN Break(<<>>)
    ELSE Dispatch(<<"polymarket">> \o split_args(line))

\* match rl.readline("polymarket> ") { Ok(line) => ..., Err(Interrupted) => continue
ReadLineFrom(items, max) ==
    /\ AwaitingLine /\ Len(read) < max
    /\ \E item \in items :
         /\ read' = Append(read, item)
         /\ IF item.ev = "Interrupted" THEN Continue(<<>>, <<>>)
            ELSE OnLine(Trim(Chars(item.line)))
    /\ UNCHANGED <<completed, exit_code, config, config_before>>

ShellReadLine == ReadLineFrom(ShellItems, MaxLines)

\* Err(ReadlineError::Eof) => break, Err(e) => { eprintln!("Error: {e}"); break }
ShellReadEnd ==
    /\ AwaitingLine
    /\ \E item \in EndItems :
         /\ read' = Append(read, item)
         /\ Break(IF item.ev = "Eof" THEN <<>> ELSE <<<<Link("Error: ", <<>>)>>>>)
    /\ UNCHANGED <<completed, exit_code, config, config_before>>

\* What the shell has seen of a command once run(cli) has returned.
Completion ==
    [line |-> Len(read), cmd |-> cmd, private_key |-> private_key,
     req |-> IF "req" \in DOMAIN loc THEN <<loc.req>> ELSE <<>>,
     log |-> log, calls |-> calls, outcome |-> outcome]

\* if let Err(e) = crate::run(cli).await { crate::output::print_error(&e, output); }
ShellCommandReturn ==
    /\ shell_pc = "run" /\ pc = 0 /\ outcome.done
    /\ stderr' = IF outcome.ok THEN stderr ELSE Append(stderr, outcome.err)
    /\ completed' = Append(completed, Completion)
    /\ shell_pc' = "readline"
    /\ UNCHANGED <<cmd, private_key, pc, loc, log, calls, outcome, printed,
                   read, exit_code, config, config_before>>

ShellNext == ShellReadLine \/ ShellReadEnd \/ ShellCommandReturn \/ Next

ShellSpec == ShellInit /\ [][ShellNext]_vars

\* The same loop on short sessions of more kinds of line: the empty and the
\* blank line, exit and quit, the words the shell answers itself alone and
\* with global flags before and after them, a line that does not parse,
\* commands that fail and commands that pass their checks, and Ctrl-C.
MaxPrompts == 2

PromptItems ==
    {Line(""), Line("   "), Line("exit"), Line(" quit "), Interrupted,
     Line("shell"), Line("setup"), Line("shell --output json"),
     Line("-o json shell"), Line("--output=json setup"),
     Line("ctf split --amount 10"),
     Line(SPLIT_10),
     Line("ctf redeem-neg-risk --condition " \o ID_ONE \o " --amounts \"10, 0\""),
     Line("ctf position-id --collection " \o ID_ONE)}

PromptReadLine == ReadLineFrom(PromptItems, MaxPrompts)

PromptNext == PromptReadLine \/ ShellReadEnd \/ ShellCommandReturn \/ Next

PromptSpec == ShellInit /\ [][PromptNext]_vars

\* --- main started with arguments: Cli::parse() reads them, exits with a
\* usage error when they do not parse, and run(cli) is entered otherwise.

\* A valid address that is not the default collateral.
OTHER_COLLATERAL == "0x00000000000000000000000000000000000000fF"

\* The ways of giving --collateral: not at all, another address in either
\* form of the flag, and texts that are no address.
CollateralFlags ==
    {<<>>, <<"--collateral", OTHER_COLLATERAL>>, <<"--collateral=" \o OTHER_COLLATERAL>>,
     <<"--collateral", "0x12">>, <<"--collateral", "usdc">>}

\* Amounts around 2^64 / 1,000,000 = 18446744073709.551616 and far above it.
LargeAmounts ==
    {"18446744073709.5", "18446744073709.55", "18446744073709.551616", "1e14", "inf"}

\* The arguments after the program name.
Argvs ==
    {<<"ctf", sub, "--condition", ID_ONE, "--amount", "10">> \o c :
        sub \in {"split", "merge"}, c \in CollateralFlags}
    \cup {<<"ctf", "redeem", "--condition", ID_ONE>> \o c : c \in CollateralFlags}
    \cup {<<"ctf", "position-id", "--collection", ID_ONE>> \o c : c \in CollateralFlags}
    \cup {<<"ctf", "split", "--condition", ID_ONE, "--amount", a>> : a \in LargeAmounts}
    \cup {<<"ctf", "redeem-neg-risk", "--condition", ID_ONE, "--amounts", a \o ",1">> :
             a \in LargeAmounts}
    \cup {<<"ctf", "redeem-neg-risk", "--condition", ID_ONE, "--amounts", "1,2">>,
          <<"ctf", "redeem-neg-risk", "--condition", ID_ONE, "--collateral", "0x12">>,
          <<"--private-key", "0xkey", "ctf", "position-id", "--collection", "garbage">>}

Argv(args) == [ev |-> "argv", line |-> args]

\* Cli::parse() returned cli and run(cli) is entered; or it printed a usage
\* error and exited.
Parsed(cli) ==
    IF cli.ok
    THEN /\ cmd = cli.command
         /\ private_key = cli.private_key
         /\ Entered
         /\ stderr = <<>>
         /\ exit_code = "running"
    ELSE /\ cmd = cli.command
         /\ private_key = None
         /\ pc = 0 /\ loc = <<>> /\ log = <<>> /\ calls = <<>>
         /\ outcome = NoOutcome /\ printed = <<>>
         /\ stderr = <<<<Link("clap error", <<>>)>>>>
         /\ exit_code = "USAGE"

ArgvInit ==
    /\ \E args \in Argvs :
         /\ read = <<Argv(args)>>
         /\ Parsed(try_parse_from(<<"polymarket">> \o args))
    /\ shell_pc = "off"
    /\ completed = <<>>
    /\ config = <<>>
    /\ config_before = <<>>

ArgvSpec == ArgvInit /\ [][MainNext]_vars

\* --- src/src/commands/mod.rs: is_numeric_id, applied to one text.

\* id.parse::<u64>().is_ok()
is_numeric_id(id) == ParseU64(id).ok

\* The longest text made of the characters below.
MaxIdLen == 3

\* Digits, a sign of either kind, a letter and a space.
IdChars == {"0", "7", "9", "+", "-", "x", " "}

RECURSIVE TextsUpTo(_)
TextsUpTo(n) ==
    IF n = 0 THEN {<<>>}
    ELSE TextsUpTo(n - 1)
         \cup {Append(s, c) : s \in {q \in TextsUpTo(n - 1) : Len(q) = n - 1},
                              c \in IdChars}

\* The short texts, and digit strings around u64::MAX.
IdTexts ==
    TextsUpTo(MaxIdLen)
    \cup {Chars("18446744073709551615"), Chars("18446744073709551616"),
          Chars("+18446744073709551615"), Chars("00000000000000000000012345")}

NumericIdInit ==
    /\ cmd \in [kind : {"is_numeric_id"}, id : IdTexts]
    /\ private_key = None
    /\ pc = 1
    /\ loc = <<>>
    /\ log = <<>>
    /\ calls = <<>>
    /\ outcome = NoOutcome
    /\ printed = <<>>
    /\ MainAwaits

\* The call returns its bool.
IsNumericId ==
    /\ cmd.kind = "is_numeric_id" /\ pc = 1
    /\ loc' = ("is_numeric" :> is_numeric_id(cmd.id))
    /\ log' = Append(log, "is_numeric_id")
    /\ pc' = 0
    /\ UNCHANGED <<cmd, private_key, calls, outcome, printed>>
    /\ UNCHANGED host_vars

NumericIdSpec == NumericIdInit /\ [][IsNumericId]_vars

\* --- src/src/commands/data.rs: execute and its three handlers, on one
\* DataCommand.  The request builders and the client of polymarket_client_sdk
\* and the printers of crate::output answer from outside: a bounded field may
\* be refused, a call and a print may fail.

UserVariants ==
    {"Positions", "ClosedPositions", "Value", "Traded", "Trades", "Activity"}
MarketVariants == {"Holders", "OpenInterest", "Volume"}
LeaderboardVariants == {"Leaderboard", "BuilderLeaderboard", "BuilderVolume"}
DataVariants == UserVariants \cup MarketVariants \cup LeaderboardVariants

\* The variants with `limit: i32`, and those with `offset: Option<i32>` too.
WithLimit ==
    {"Positions", "ClosedPositions", "Trades", "Activity", "Holders",
     "Leaderboard", "BuilderLeaderboard"}
WithOffset == WithLimit \ {"Holders"}

Limits == {"-1", "25"}
Offsets == {None, Some("0"), Some("-1")}

DataCommands ==
    {[kind |-> "data", variant |-> v, limit |-> l, offset |-> o] :
        v \in DataVariants, l \in Limits \cup {""}, o \in Offsets}

\* The commands clap can build: a field only where the variant has it.
DataCommand(c) ==
    /\ (c.limit # "") = (c.variant \in WithLimit)
    /\ c.offset.some => c.variant \in WithOffset

\* Every variant sent to execute_user.
RouteAllToUser(variant) == "execute_user"

\* execute: the handler its match calls for a variant.
Route(variant) ==
    CASE variant \in {"Positions", "ClosedPositions", "Value", "Traded",
                      "Trades", "Activity"} -> "execute_user"
      [] variant \in {"Holders", "OpenInterest", "Volume"} -> "execute_market"
      [] variant \in {"Leaderboard", "BuilderLeaderboard", "BuilderVolume"} ->
            "execute_leaderboard"

\* The arms of each handler that are not unreachable!: the variant, the
\* method of the client it calls and the printer of the answer.
HandlerArms ==
    [execute_user |->
        {<<"Positions", "positions", "print_positions">>,
         <<"ClosedPositions", "closed_positions", "print_closed_positions">>,
         <<"Value", "value", "print_value">>,
         <<"Traded", "traded", "print_traded">>,
         <<"Trades", "trades", "print_trades">>,
         <<"Activity", "activity", "print_activity">>},
     execute_market |->
        {<<"Holders", "holders", "print_holders">>,
         <<"OpenInterest", "open_interest", "print_open_interest">>,
         <<"Volume", "live_volume", "print_live_volume">>},
     execute_leaderboard |->
        {<<"Leaderboard", "leaderboard", "print_leaderboard">>,
         <<"BuilderLeaderboard", "builder_leaderboard", "print_builder_leaderboard">>,
         <<"BuilderVolume", "builder_volume", "print_builder_volume">>}]

ArmsFor(handler, variant) == {arm \in HandlerArms[handler] : arm[1] = variant}

\* The thread unwound by a panic: nothing is returned.
Panicked(msg) == [done |-> TRUE, ok |-> FALSE, err |-> <<Link("panicked", msg)>>]

DataInit ==
    /\ cmd \in {c \in DataCommands : DataCommand(c)}
    /\ private_key = None
    /\ pc = 1
    /\ loc = <<>>
    /\ log = <<>>
    /\ calls = <<>>
    /\ outcome = NoOutcome
    /\ printed = <<>>
    /\ MainAwaits

\* execute: match args.command, entering one handler.
DataExecute ==
    /\ cmd.kind = "data" /\ pc = 1
    /\ loc' = ("handler" :> Route(cmd.variant))
    /\ log' = Append(log, Route(cmd.variant))
    /\ pc' = 2
    /\ UNCHANGED <<cmd, private_key, calls, outcome, printed>>
    /\ UNCHANGED host_vars

\* The handler's match command: the arm of the variant builds the request,
\* `.limit(limit)?` and `.maybe_offset(offset)?` returning the builder's
\* error; a variant of another handler reaches unreachable!.
DataHandler ==
    /\ cmd.kind = "data" /\ pc = 2
    /\ IF ArmsFor(loc.handler, cmd.variant) = {}
       THEN /\ outcome' = Panicked("unreachable!")
            /\ log' = Append(log, "unreachable!")
            /\ pc' = 0
            /\ loc' = loc
       ELSE \E arm \in ArmsFor(loc.handler, cmd.variant) :
            \E built \in (IF cmd.variant \in WithLimit THEN BOOLEAN ELSE {TRUE}) :
              IF built
              THEN /\ loc' = loc @@ ("arm" :> arm)
                   /\ log' = Append(log, "build")
                   /\ pc' = 3
                   /\ outcome' = outcome
              ELSE /\ outcome' = Returned(Err(<<Link("builder", <<>>)>>))
                   /\ log' = Append(log, "build")
                   /\ pc' = 0
                   /\ loc' = loc
    /\ UNCHANGED <<cmd, private_key, calls, printed>>
    /\ UNCHANGED host_vars

\* client.<method>(&request).await?
DataCall ==
    /\ cmd.kind = "data" /\ pc = 3
    /\ calls' = Append(calls, [op |-> loc.arm[2], variant |-> cmd.variant,
                               limit |-> cmd.limit, offset |-> cmd.offset])
    /\ log' = Append(log, loc.arm[2])
    /\ \E answered \in BOOLEAN :
         IF answered THEN pc' = 4 /\ outcome' = outcome
         ELSE pc' = 0 /\ outcome' = Returned(Err(<<Link(loc.arm[2], <<>>)>>))
    /\ UNCHANGED <<cmd, private_key, loc, printed>>
    /\ UNCHANGED host_vars

\* print_<what>(&answer, output)?; then Ok(()).
DataPrint ==
    /\ cmd.kind = "data" /\ pc = 4
    /\ log' = Append(log, loc.arm[3])
    /\ pc' = 0
    /\ \E shown \in BOOLEAN :
         IF shown
         THEN printed' = Append(printed, Println(loc.arm[3])) /\ outcome' = Returned(Ok(<<>>))
         ELSE printed' = printed /\ outcome' = Returned(Err(<<Link(loc.arm[3], <<>>)>>))
    /\ UNCHANGED <<cmd, private_key, loc, calls>>
    /\ UNCHANGED host_vars

DataNext == DataExecute \/ DataHandler \/ DataCall \/ DataPrint

DataSpec == DataInit /\ [][DataNext]_vars

\* --- src/src/commands/wallet.rs: create, import and reset on the stored
\* config.  `config` is the content of the config file, <<>> when there is
\* none; `config_before` is what it was when the command started.  The
\* functions of crate::config are taken by their names: config_exists tells
\* whether the file is there, save_wallet replaces its content, delete_config
\* removes it, and each of the last two, and config_path, may fail.

POLYGON == 137

\* The order of the secp256k1 group: a secret key is a number from 1 to the
\* order less one.
SECP256K1_ORDER ==
    HexBytes(Chars("0xfffffffffffffffffffffffffffffffebaaedce6af48a03bbfd25e8cd0364141"),
             B256_BYTES, "").val

RECURSIVE BytesLess(_, _)
BytesLess(a, b) ==
    IF a = <<>> THEN FALSE
    ELSE IF Head(a) # Head(b) THEN Head(a) < Head(b)
    ELSE BytesLess(Tail(a), Tail(b))

\* LocalSigner::from_str: 64 hex digits, with or without 0x, of a number from
\* 1 to the order less one.
SignerFromStr(key) ==
    LET cs == Chars(key)
        prefixed == IF Len(cs) >= 2 /\ SubSeq(cs, 1, 2) = <<"0", "x">>
                    THEN cs ELSE <<"0", "x">> \o cs
        bytes == HexBytes(prefixed, B256_BYTES, "Invalid private key")
    IN  IF bytes.ok /\ bytes.val # B256Default /\ BytesLess(bytes.val, SECP256K1_ORDER)
        THEN Ok(bytes.val)
        ELSE Err(<<Link("Invalid private key", key)>>)

HexChar(n) == SubSeq("0123456789abcdef", n + 1, n + 1)

\* signer_key_hex: "0x" and two lower-case hex digits per byte.
signer_key_hex(bytes) ==
    "0x" \o Str([i \in 1..(2 * Len(bytes)) |->
                    IF i % 2 = 1 THEN HexChar(bytes[(i + 1) \div 2] \div 16)
                    ELSE HexChar(bytes[i \div 2] % 16)])

KEY_ONE == "0x0000000000000000000000000000000000000000000000000000000000000001"
KEY_AB == "00000000000000000000000000000000000000000000000000000000000000AB"
KEY_OLD == "0x00000000000000000000000000000000000000000000000000000000000000dd"

\* The keys typed after `wallet import`.
ImportKeys ==
    {KEY_ONE, KEY_AB, "", "0x01", "not-a-key",
     "0x0000000000000000000000000000000000000000000000000000000000000000",
     "0xfffffffffffffffffffffffffffffffebaaedce6af48a03bbfd25e8cd0364141"}

\* The keys LocalSigner::random() may draw.
RandomKeys == {SignerFromStr(KEY_ONE).val, SignerFromStr(KEY_AB).val}

SignatureTypes == {"proxy", "eoa"}

WalletCommands ==
    [kind : {"wallet"}, variant : {"Create"}, force : BOOLEAN, signature_type : SignatureTypes]
    \cup [kind : {"wallet"}, variant : {"Import"}, key : ImportKeys, force : BOOLEAN,
           signature_type : SignatureTypes]
    \cup [kind : {"wallet"}, variant : {"Reset"}, force : BOOLEAN]

Wallet(key_hex, chain, signature_type) ==
    [key |-> key_hex, chain |-> chain, signature_type |-> signature_type]

\* What read_line leaves in `input`: the line with its end, or nothing at the
\* end of the input.
Answers ==
    {"y\n", "Y\r\n", "yes\n", "  YeS \n", " y", "n\n", "\n", "", "no\n", "ye\n",
     "yes!\n", "y es\n"}

\* str::to_lowercase on the letters of the answers.
to_lowercase(s) ==
    [i \in 1..Len(s) |->
        CASE s[i] = "Y" -> "y" [] s[i] = "E" -> "e" [] s[i] = "S" -> "s"
          [] s[i] = "N" -> "n" [] s[i] = "O" -> "o" [] OTHER -> s[i]]

\* Every answer taken for a yes.
ConfirmedAlways(input) == TRUE

\* matches!(input.trim().to_lowercase().as_str(), "y" | "yes")
Confirmed(input) == Str(to_lowercase(Trim(Chars(input)))) \in {"y", "yes"}

config_exists == config # <<>>

WalletInit ==
    /\ cmd \in WalletCommands
    /\ private_key = None
    /\ pc = 1
    /\ loc = <<>>
    /\ log = <<>>
    /\ calls = <<>>
    /\ outcome = NoOutcome
    /\ printed = <<>>
    /\ stderr = <<>>
    /\ exit_code = "running"
    /\ shell_pc = "off"
    /\ read = <<>>
    /\ completed = <<>>
    /\ config \in {<<>>, <<Wallet(KEY_OLD, POLYGON, "eoa")>>}
    /\ config_before = config

wallet_vars == <<cmd, private_key, stderr, exit_code, shell_pc, read, completed, config_before>>

\* Without the force check: Ok(()) always.
guard_overwrite_never(force) == Ok(<<>>)

\* guard_overwrite: the error when a config exists and force is false.
guard_overwrite(force) ==
    IF ~force /\ config_exists
    THEN Err(<<Link("A wallet already exists. Use --force to overwrite.", <<>>)>>)
    ELSE Ok(<<>>)

\* cmd_create, cmd_import: guard_overwrite(force)?
WalletGuard ==
    /\ cmd.kind = "wallet" /\ cmd.variant \in {"Create", "Import"} /\ pc = 1
    /\ log' = Append(log, "guard_overwrite")
    /\ IF guard_overwrite(cmd.force).ok
       THEN pc' = 2 /\ outcome' = outcome
       ELSE pc' = 0 /\ outcome' = Returned(guard_overwrite(cmd.force))
    /\ UNCHANGED <<loc, calls, printed, config>>
    /\ UNCHANGED wallet_vars

\* LocalSigner::random(), or LocalSigner::from_str(key).context(..)?, and
\* signer_key_hex(&signer).
WalletSigner ==
    /\ cmd.kind = "wallet" /\ pc = 2
    /\ log' = Append(log, "signer")
    /\ \E signer \in (IF cmd.variant = "Create" THEN {Ok(k) : k \in RandomKeys}
                        ELSE {SignerFromStr(cmd.key)}) :
         IF signer.ok
         THEN /\ loc' = ("key_hex" :> signer_key_hex(signer.val))
              /\ pc' = 3
              /\ outcome' = outcome
         ELSE /\ loc' = loc
              /\ pc' = 0
              /\ outcome' = Returned(signer)
    /\ UNCHANGED <<calls, printed, config>>
    /\ UNCHANGED wallet_vars

\* config::save_wallet(&key_hex, POLYGON, signature_type)?; config_path()?;
\* the report printed.  A save that fails leaves the file as it was or
\* written.
WalletSave ==
    /\ cmd.kind = "wallet" /\ pc = 3
    /\ log' = Append(log, "save_wallet")
    /\ calls' = Append(calls, [op |-> "save_wallet", key |-> loc.key_hex,
                               signature_type |-> cmd.signature_type])
    /\ pc' = 0
    /\ \E saved \in BOOLEAN, path \in BOOLEAN :
         IF saved
         THEN /\ config' = <<Wallet(loc.key_hex, POLYGON, cmd.signature_type)>>
              /\ IF path
                 THEN /\ printed' = Append(printed, Println("Wallet saved"))
                      /\ outcome' = Returned(Ok(<<>>))
                 ELSE /\ printed' = printed
                      /\ outcome' = Returned(Err(<<Link("config_path", <<>>)>>))
         ELSE /\ config' \in {config, <<Wallet(loc.key_hex, POLYGON, cmd.signature_type)>>}
              /\ printed' = printed
              /\ outcome' = Returned(Err(<<Link("save_wallet", <<>>)>>))
    /\ UNCHANGED loc
    /\ UNCHANGED wallet_vars

\* cmd_reset: nothing to reset without a config; with --force straight to
\* the deletion; else the question.
WalletResetEnter ==
    /\ cmd.kind = "wallet" /\ cmd.variant = "Reset" /\ pc = 1
    /\ log' = Append(log, "config_exists")
    /\ IF ~config_exists
       THEN /\ printed' = Append(printed, Println("Nothing to reset. No config found."))
            /\ outcome' = Returned(Ok(<<>>))
            /\ pc' = 0
       ELSE /\ printed' = printed
            /\ outcome' = outcome
            /\ pc' = IF cmd.force THEN 6 ELSE 5
    /\ UNCHANGED <<loc, calls, config>>
    /\ UNCHANGED wallet_vars

\* The question printed, stdout flushed, one line read and tested.
WalletResetAsk ==
    /\ cmd.kind = "wallet" /\ pc = 5
    /\ log' = Append(log, "read_line")
    /\ \E flushed \in BOOLEAN, line \in {Ok(a) : a \in Answers} \cup {Err(<<Link("read_line", <<>>)>>)} :
         IF ~flushed
         THEN /\ pc' = 0 /\ loc' = loc /\ printed' = Append(printed, [print |-> "Are you sure? [y/N] "])
              /\ outcome' = Returned(Err(<<Link("flush", <<>>)>>))
         ELSE IF ~line.ok
         THEN /\ pc' = 0 /\ loc' = loc /\ printed' = Append(printed, [print |-> "Are you sure? [y/N] "])
              /\ outcome' = Returned(line)
         ELSE IF ~Confirmed(line.val)
         THEN /\ pc' = 0 /\ loc' = ("input" :> line.val)
              /\ printed' = printed \o <<[print |-> "Are you sure? [y/N] "], Println("Aborted.")>>
              /\ outcome' = Returned(Ok(<<>>))
         ELSE /\ pc' = 6 /\ loc' = ("input" :> line.val)
              /\ printed' = Append(printed, [print |-> "Are you sure? [y/N] "])
              /\ outcome' = outcome
    /\ UNCHANGED <<calls, config>>
    /\ UNCHANGED wallet_vars

\* config::config_path()?; config::delete_config()?; the report printed.
WalletResetDelete ==
    /\ cmd.kind = "wallet" /\ pc = 6
    /\ pc' = 0
    /\ \E path \in BOOLEAN, deleted \in BOOLEAN :
         IF ~path
         THEN /\ config' = config /\ calls' = calls /\ printed' = printed
              /\ log' = Append(log, "config_path")
              /\ outcome' = Returned(Err(<<Link("config_path", <<>>)>>))
         ELSE /\ calls' = Append(calls, [op |-> "delete_config"])
              /\ log' = Append(log, "delete_config")
              /\ IF deleted
                 THEN /\ config' = <<>>
                      /\ printed' = Append(printed, Println("Config deleted"))
                      /\ outcome' = Returned(Ok(<<>>))
                 ELSE /\ config' = config
                      /\ printed' = printed
                      /\ outcome' = Returned(Err(<<Link("delete_config", <<>>)>>))
    /\ UNCHANGED loc
    /\ UNCHANGED wallet_vars

WalletNext ==
    \/ WalletGuard
    \/ WalletSigner
    \/ WalletSave
    \/ WalletResetEnter
    \/ WalletResetAsk
    \/ WalletResetDelete

WalletSpec == WalletInit /\ [][WalletNext]_vars

\* ------------------------------------------------------------------------
\* Properties
\* ------------------------------------------------------------------------

\* fn was called by execute.
Called(fn) == \E i \in 1..Len(log) : log[i] = fn

\* execute returned an error from the statement fn, the last one it ran.
FailedAt(fn) ==
    /\ pc = 0 /\ outcome.done /\ ~outcome.ok
    /\ log # <<>> /\ log[Len(log)] = fn

\* The decimal text denotes a finite number.
IsNumber(d) == d.ok /\ d.special = ""

NonZeroDigits(d) == \E i \in 1..Len(d.digits) : d.digits[i] # "0"

\* The decimal text denotes a number > 0, and one <= 0.
PositiveDec(d) == IsNumber(d) /\ ~d.neg /\ NonZeroDigits(d)
NonPositiveDec(d) == IsNumber(d) /\ (d.neg \/ ~NonZeroDigits(d))

\* floor(n * 10^6 / 10^k), in exact integer arithmetic.
ExactMicroOf(n, k) ==
    IF k <= 6 THEN MulPow10(n, 6 - k) ELSE DivPow10(n, k - 6, FALSE).q

\* floor(d * 1,000,000) for the non-negative number the decimal text denotes.
ExactMicro(d) == ExactMicroOf(DecBits(d.digits, <<>>), d.k)

\* The decimal text of --amount.
AmountDec == DecimalOf(Chars(cmd.amount_text))

IsSplitOrMerge == cmd.kind \in {"Split", "Merge"}

NormalizedIs(exact) == Len(exact) <= U64Bits => loc.usdc_amount = exact

\* C1: for every decimal amount d > 0 given to split or merge (with
\* d * 1,000,000 in the range of u64), the normalized amount is
\* floor(d * 1,000,000) of the exact decimal product.
C1_NormalizedIsExactFloor ==
    (IsSplitOrMerge /\ "usdc_amount" \in DOMAIN loc /\ PositiveDec(AmountDec))
        => NormalizedIs(ExactMicro(AmountDec))

\* C2: for split and merge, an amount that is zero or negative makes
\* parse_usdc_amount fail: no amount is bound, the command ends in the error
\* "Amount must be positive", no provider is created and no request is
\* dispatched.
C2_NonPositiveAmountFails ==
    (IsSplitOrMerge /\ NonPositiveDec(AmountDec))
        => /\ "usdc_amount" \notin DOMAIN loc
           /\ ~Called("create_provider")
           /\ calls = <<>>
           /\ ~outcome.ok
           /\ Called("parse_usdc_amount")
                => /\ FailedAt("parse_usdc_amount")
                   /\ outcome.err = <<Link("Amount must be positive", <<>>)>>

\* A split whose amount is zero or negative was refused by parse_usdc_amount.
C2_Witness ==
    /\ cmd.kind = "Split" /\ NonPositiveDec(AmountDec)
    /\ FailedAt("parse_usdc_amount")

\* C3: the amount of every split or merge request that is dispatched is at
\* least 1.
C3_DispatchedAmountPositive ==
    \A i \in 1..Len(calls) :
        calls[i].op \in {"split_position", "merge_positions"}
            => calls[i].req.amount # <<>>

\* The comma-separated elements of a text, each without its surrounding
\* whitespace.
Elements(str) ==
    LET parts == SplitComma(Chars(str))
    IN  [i \in 1..Len(parts) |-> Trim(parts[i])]

\* The decimal texts of the elements of --amounts.
AmountDecs == LET es == Elements(cmd.amounts) IN [i \in 1..Len(es) |-> DecimalOf(es[i])]

NegativeDec(d) == IsNumber(d) /\ d.neg /\ NonZeroDigits(d)
ZeroDec(d) == IsNumber(d) /\ ~NonZeroDigits(d)

\* What the element alone normalizes to.
AloneAmount(e) == UsdcAmountsOf(<<e>>).val[1]

AmountListHolds(ds) ==
    /\ (\E i \in 1..Len(ds) : NegativeDec(ds[i]))
         => /\ "amounts" \notin DOMAIN loc
            /\ calls = <<>>
            /\ FailedAt("parse_usdc_amounts")
    /\ "amounts" \in DOMAIN loc
         => /\ Len(loc.amounts) = Len(ds)
            /\ \A i \in 1..Len(ds) :
                 /\ ZeroDec(ds[i]) => loc.amounts[i] = <<>>
                 /\ loc.amounts[i] = AloneAmount(Elements(cmd.amounts)[i])

\* C4: once redeem-neg-risk has parsed its amount list: a negative element at
\* any position fails the whole list (no amounts are bound, no request is
\* dispatched); on success there is one amount per element, in input order,
\* each what the element alone normalizes to, and 0 for an element equal to
\* zero.
C4_AmountListElementwise ==
    (cmd.kind = "RedeemNegRisk" /\ Called("parse_usdc_amounts"))
        => AmountListHolds(AmountDecs)

\* A list whose first element is valid and whose second is negative failed.
C4_Witness ==
    /\ cmd.kind = "RedeemNegRisk" /\ FailedAt("parse_usdc_amounts")
    /\ Len(AmountDecs) = 2
    /\ PositiveDec(AmountDecs[1]) /\ NegativeDec(AmountDecs[2])

\* The field holding the integer CSV of the command, and its text.
CsvField == IF cmd.kind = "Redeem" THEN "index_sets" ELSE "partition"
HasCsv == cmd.kind \in {"Split", "Merge", "Redeem"} /\ cmd[CsvField].some
CsvElements == Elements(cmd[CsvField].v)

\* The element is a non-negative integer: decimal digits after an optional '+'.
IsNatText(e) ==
    LET body == IF e # <<>> /\ Head(e) = "+" THEN Tail(e) ELSE e
    IN  body # <<>> /\ \A i \in 1..Len(body) : body[i] \in Digits

\* C5: once the integer CSV of split, merge or redeem has been parsed: if any
\* element is empty or is not a non-negative integer, whatever its position,
\* the parse failed, no list (not even a partial one) is bound and the command
\* ended in an error without a request.
C5_CsvAllOrNothing ==
    (HasCsv /\ Called("partition")
     /\ \E i \in 1..Len(CsvElements) : ~IsNatText(CsvElements[i]))
        => /\ CsvField \notin DOMAIN loc
           /\ FailedAt("partition")
           /\ calls = <<>>

\* A CSV whose first element is an integer and whose second is not failed.
C5_Witness ==
    /\ HasCsv /\ FailedAt("partition")
    /\ Len(CsvElements) = 2
    /\ IsNatText(CsvElements[1]) /\ ~IsNatText(CsvElements[2])

\* The integer a piece denotes once its whitespace is removed.
PieceValue(part) == IntBits(SmallDec(SelectSeq(part, LAMBDA c : ~IsSpace(c)), 1))

CsvPieceValues ==
    LET parts == SplitComma(Chars(cmd[CsvField].v))
    IN  [i \in 1..Len(parts) |-> PieceValue(parts[i])]

\* C6: when the partition or index-set CSV parses, the sequence bound and
\* placed in the request has exactly one integer per comma-separated element,
\* in the order given, surrounding whitespace ignored.
C6_CsvInOrder ==
    HasCsv
        => /\ CsvField \in DOMAIN loc => loc[CsvField] = CsvPieceValues
           /\ "req" \in DOMAIN loc => loc.req[CsvField] = CsvPieceValues
           /\ \A i \in 1..Len(calls) : calls[i].req[CsvField] = CsvPieceValues

\* A request was dispatched whose two elements are different integers given
\* in descending order, one of them with whitespace around it.
C6_Witness ==
    /\ HasCsv /\ cmd[CsvField].v = " 2 ,1"
    /\ calls # <<>>
    /\ calls[1].req[CsvField] = <<IntBits(2), IntBits(1)>>

\* [1, 2]
OneTwo == << <<1>>, <<1, 0>> >>

CsvOmitted == cmd.kind \in {"Split", "Merge", "Redeem"} /\ ~cmd[CsvField].some

\* C7: when --partition is omitted on split or merge, or --index-sets on
\* redeem, resolving it does not fail and the sequence bound and placed in the
\* request is exactly [1, 2].
C7_DefaultIsOneTwo ==
    CsvOmitted
        => /\ Called("partition") => CsvField \in DOMAIN loc
           /\ CsvField \in DOMAIN loc => loc[CsvField] = OneTwo
           /\ "req" \in DOMAIN loc => loc.req[CsvField] = OneTwo
           /\ \A i \in 1..Len(calls) : calls[i].req[CsvField] = OneTwo

\* A split without --partition was dispatched with the partition [1, 2].
C7_Witness ==
    /\ cmd.kind = "Split" /\ ~cmd.partition.some
    /\ calls # <<>>
    /\ calls[1].req.partition = OneTwo

\* The all-zero 32-byte identifier.
ZeroId == [i \in 1..32 |-> 0]

HasParent == cmd.kind \in {"Split", "Merge", "Redeem", "CollectionId"}

\* The text is 0x followed by 64 hex digits.
IsId32Text(s) ==
    /\ Len(s) = 66 /\ s[1] = "0" /\ s[2] = "x"
    /\ \A i \in 3..66 : s[i] \in HexDigits

ParentText == Chars(cmd.parent_collection.v)

ParentIsIn(req) == req.parent_collection_id

\* C8: when --parent-collection is omitted, resolving it does not fail and the
\* parent bound and placed in the request is the all-zero 32-byte identifier;
\* when the value supplied is not a valid 32-byte hex identifier, the command
\* fails there: no parent (the zero default included) is bound and no request
\* is dispatched.
C8_ParentDefaultAndInvalid ==
    HasParent
        => /\ ~cmd.parent_collection.some
                => /\ Called("parse_optional_parent") => "parent" \in DOMAIN loc
                   /\ "parent" \in DOMAIN loc => loc.parent = ZeroId
                   /\ \A i \in 1..Len(calls) : ParentIsIn(calls[i].req) = ZeroId
           /\ (cmd.parent_collection.some /\ ~IsId32Text(ParentText))
                => /\ "parent" \notin DOMAIN loc
                   /\ calls = <<>>
                   /\ Called("parse_optional_parent")
                        => FailedAt("parse_optional_parent")

\* A command whose --parent-collection is not an identifier failed at it.
C8_Witness ==
    /\ HasParent /\ cmd.parent_collection.some /\ ~IsId32Text(ParentText)
    /\ FailedAt("parse_optional_parent")

ParentSupplied == HasParent /\ cmd.parent_collection.some /\ IsId32Text(ParentText)

\* C9 as stated: any valid 0x-prefixed 32-byte hex --parent-collection yields
\* a non-zero identifier, distinct from the default of the omitted flag.
C9_ValidParentIsNonZero ==
    (ParentSupplied /\ "parent" \in DOMAIN loc)
        => loc.parent # ZeroId /\ loc.parent # parse_optional_parent(None).val

\* C9 amended: a valid 0x-prefixed 32-byte hex --parent-collection always
\* resolves, and the identifier is the zero default exactly when all of its 64
\* hex digits are 0; any other valid value yields a non-zero identifier
\* distinct from the default.
C9_ValidParentZeroIffZeroDigits ==
    ParentSupplied
        => /\ Called("parse_optional_parent") => "parent" \in DOMAIN loc
           /\ "parent" \in DOMAIN loc
                => (loc.parent = ZeroId <=> \A i \in 3..66 : ParentText[i] = "0")

\* A valid parent with a non-zero digit was resolved to a non-zero identifier.
C9_Witness ==
    /\ ParentSupplied /\ \E i \in 3..66 : ParentText[i] # "0"
    /\ "parent" \in DOMAIN loc /\ loc.parent # ZeroId

\* The external actions of execute: creating a provider or a client, and the
\* operations of the client.
ExternalFns ==
    {"create_provider", "create_readonly_provider", "Client::new",
     "Client::with_neg_risk", "split_position", "merge_positions",
     "redeem_positions", "redeem_neg_risk", "condition_id", "collection_id",
     "position_id"}

\* Every input of the command passes its check.
InputsValid ==
    CASE cmd.kind \in {"Split", "Merge"} ->
           /\ parse_condition_id(cmd.condition).ok
           /\ parse_usdc_amount(cmd.amount).ok
           /\ parse_address(cmd.collateral).ok
           /\ parse_optional_parent(cmd.parent_collection).ok
           /\ cmd.partition.some => parse_u256_csv(cmd.partition.v).ok
      [] cmd.kind = "Redeem" ->
           /\ parse_condition_id(cmd.condition).ok
           /\ parse_address(cmd.collateral).ok
           /\ parse_optional_parent(cmd.parent_collection).ok
           /\ cmd.index_sets.some => parse_u256_csv(cmd.index_sets.v).ok
      [] cmd.kind = "RedeemNegRisk" ->
           /\ parse_condition_id(cmd.condition).ok
           /\ parse_usdc_amounts(cmd.amounts).ok
      [] cmd.kind = "ConditionId" ->
           /\ parse_address(cmd.oracle).ok
           /\ parse_condition_id(cmd.question).ok
      [] cmd.kind = "CollectionId" ->
           /\ parse_condition_id(cmd.condition).ok
           /\ parse_optional_parent(cmd.parent_collection).ok
      [] cmd.kind = "PositionId" ->
           /\ parse_address(cmd.collateral).ok
           /\ parse_condition_id(cmd.collection).ok

\* C10: in each of the seven sub-commands, if any input is malformed or any
\* amount invalid, no provider or client is created and no transaction or id
\* query is issued, and the command does not succeed: every external action
\* comes after all input checks have passed.
C10_ChecksBeforeExternal ==
    ~InputsValid
        => /\ \A i \in 1..Len(log) : log[i] \notin ExternalFns
           /\ calls = <<>>
           /\ ~outcome.ok
           /\ pc = 0 => outcome.done

\* A split whose last input check (the partition) failed, nothing external
\* having run.
C10_Witness ==
    /\ cmd.kind = "Split" /\ FailedAt("partition")
    /\ ~InputsValid
    /\ Len(log) = 5

\* The operation of the external executor each sub-command calls.
OperationOf(kind) ==
    CASE kind = "Split" -> "split_position"
      [] kind = "Merge" -> "merge_positions"
      [] kind = "Redeem" -> "redeem_positions"
      [] kind = "RedeemNegRisk" -> "redeem_neg_risk"
      [] kind = "ConditionId" -> "condition_id"
      [] kind = "CollectionId" -> "collection_id"
      [] kind = "PositionId" -> "position_id"

\* The locals each sub-command's request is assembled from.
RequestLocals(kind) ==
    CASE kind \in {"Split", "Merge"} ->
           {"condition_id", "usdc_amount", "collateral_addr", "parent", "partition"}
      [] kind = "Redeem" -> {"condition_id", "collateral_addr", "parent", "index_sets"}
      [] kind = "RedeemNegRisk" -> {"condition_id", "amounts"}
      [] kind = "ConditionId" -> {"oracle_addr", "question_id"}
      [] kind = "CollectionId" -> {"condition_id", "parent"}
      [] kind = "PositionId" -> {"collateral_addr", "collection_id"}

\* The position in log of the first call of fn; 0 when it was not called.
FirstCall(fn) ==
    IF Called(fn) THEN CHOOSE i \in 1..Len(log) : log[i] = fn /\ \A j \in 1..(i - 1) : log[j] # fn
    ELSE 0

\* C11: one invocation issues at most one operation call; the call is the
\* sub-command's operation, carries the request assembled from all of its
\* locals, and comes after the request was built; once execute has returned
\* an error that did not come from the call itself, no call was issued; after
\* a failed call execute has returned and nothing more is issued.
C11_AtMostOneCall ==
    /\ Len(calls) <= 1
    /\ calls # <<>>
         => /\ calls[1].op = OperationOf(cmd.kind)
            /\ RequestLocals(cmd.kind) \subseteq DOMAIN loc
            /\ "req" \in DOMAIN loc /\ calls[1].req = loc.req
            /\ 0 < FirstCall("build") /\ FirstCall("build") < FirstCall(calls[1].op)
            /\ Cardinality({i \in 1..Len(log) : log[i] = calls[1].op}) = 1
    /\ (pc = 0 /\ ~outcome.ok /\ ~Called(OperationOf(cmd.kind))) => calls = <<>>
    /\ FailedAt(OperationOf(cmd.kind)) => Len(calls) = 1 /\ ~ENABLED Next

\* A mutating call failed: execute returned the error with one call issued.
C11_Witness ==
    /\ cmd.kind \in {"Split", "Merge", "Redeem", "RedeemNegRisk"}
    /\ FailedAt(OperationOf(cmd.kind))
    /\ Len(calls) = 1

\* The context label of each mutating sub-command; the id queries have none
\* in execute, so for them any outer context link counts.
LabelOf(kind) ==
    CASE kind = "Split" -> "Split position failed"
      [] kind = "Merge" -> "Merge positions failed"
      [] kind = "Redeem" -> "Redeem positions failed"
      [] kind = "RedeemNegRisk" -> "Redeem neg-risk positions failed"
      [] OTHER -> ""

Wrapped(err, kind) ==
    /\ Len(err) >= 2
    /\ LabelOf(kind) # "" => err[1].msg = LabelOf(kind)

\* C12: every error execute returns, whether from parsing an input, from
\* creating the provider or client, or from the external call, in all seven
\* sub-commands, is wrapped: its outermost link is the sub-command's context
\* label and the cause follows it.
C12_EveryFailureLabelled ==
    (pc = 0 /\ outcome.done /\ ~outcome.ok) => Wrapped(outcome.err, cmd.kind)

IsMutating == cmd.kind \in {"Split", "Merge", "Redeem", "RedeemNegRisk"}
IsIdQuery == cmd.kind \in {"ConditionId", "CollectionId", "PositionId"}

\* The provider every client and call of the invocation goes through.
ProviderIs(kind, key) ==
    /\ "provider" \in DOMAIN loc => loc.provider = [kind |-> kind, key |-> key]
    /\ "client" \in DOMAIN loc => loc.client.provider = [kind |-> kind, key |-> key]
    /\ \A i \in 1..Len(calls) : calls[i].client.provider = [kind |-> kind, key |-> key]

\* C13: the four mutating sub-commands create only the authenticated
\* provider, from the private key of the invocation, dispatch only through
\* it, and return an error without a call when it cannot be created; the
\* three id queries create only the read-only provider, which holds no key
\* whatever the private key is.
C13_ProviderByKind ==
    /\ IsMutating
         => /\ ProviderIs("signer", private_key)
            /\ ~Called("create_readonly_provider")
            /\ calls # <<>> => Called("create_provider")
            /\ FailedAt("create_provider") => calls = <<>>
    /\ IsIdQuery
         => /\ ProviderIs("readonly", None)
            /\ ~Called("create_provider")
            /\ calls # <<>> => Called("create_readonly_provider")

\* An id query was issued through the read-only provider although the
\* invocation was given a private key.
C13_Witness ==
    /\ IsIdQuery /\ private_key.some
    /\ calls # <<>>
    /\ calls[1].client.provider = [kind |-> "readonly", key |-> None]

\* The configuration redeem-neg-risk must select, and the other sub-commands.
ConfigOf(kind) == IF kind = "RedeemNegRisk" THEN "neg_risk" ELSE "default"

\* C14: the client is built with the neg-risk configuration if and only if
\* the sub-command is redeem-neg-risk, whatever the argument values: the
\* client bound and the client of every call carry it for redeem-neg-risk and
\* the default configuration for the six other sub-commands.
C14_NegRiskIffRedeemNegRisk ==
    /\ "client" \in DOMAIN loc => loc.client.config = ConfigOf(cmd.kind)
    /\ \A i \in 1..Len(calls) : calls[i].client.config = ConfigOf(cmd.kind)
    /\ Called("Client::with_neg_risk") => cmd.kind = "RedeemNegRisk"
    /\ Called("Client::new") => cmd.kind # "RedeemNegRisk"

\* A redeem-neg-risk call was issued through the neg-risk configuration.
C14_Witness ==
    /\ cmd.kind = "RedeemNegRisk"
    /\ calls # <<>> /\ calls[1].client.config = "neg_risk"

\* split --condition <0x, 62 zeros, 01> --amount 10, no other flag.
IsScenarioSplit ==
    /\ cmd.kind = "Split"
    /\ cmd.condition = "0x0000000000000000000000000000000000000000000000000000000000000001"
    /\ cmd.amount_text = "10"
    /\ cmd.collateral = "0x2791Bca1f2de4661ED88A30C99A7a9449Aa84174"
    /\ ~cmd.partition.some
    /\ ~cmd.parent_collection.some

\* The bytes of 0x2791Bca1f2de4661ED88A30C99A7a9449Aa84174.
StablecoinBytes ==
    <<39, 145, 188, 161, 242, 222, 70, 97, 237, 136,
      163, 12, 153, 167, 169, 68, 154, 168, 65, 116>>

ScenarioRequest ==
    [type |-> "SplitPositionRequest",
     collateral_token |-> StablecoinBytes,
     parent_collection_id |-> ZeroId,
     condition_id |-> [i \in 1..32 |-> IF i = 32 THEN 1 ELSE 0],
     partition |-> OneTwo,
     amount |-> IntBits(10000000)]

\* The steps of execute that can fail for reasons outside the command line.
ExternalSteps ==
    {"create_provider", "Client::new", "split_position", "print_tx_result"}

\* C15: split --condition <0x, 62 zeros, 01> --amount 10 passes every input
\* check, assembles the SplitPositionRequest with amount 10,000,000, partition
\* [1, 2], the all-zero parent collection, the default stablecoin collateral
\* and the given condition id, and dispatches exactly one split call carrying
\* exactly that request (none only when the provider or the client cannot be
\* created).
C15_ScenarioSplit ==
    IsScenarioSplit
        => /\ "req" \in DOMAIN loc => loc.req = ScenarioRequest
           /\ Len(calls) <= 1
           /\ calls # <<>>
                => /\ calls[1].op = "split_position"
                   /\ calls[1].req = ScenarioRequest
           /\ (pc = 0 /\ ~outcome.ok) => log[Len(log)] \in ExternalSteps
           /\ (Called("build") /\ ~Running) => Len(calls) = 1
           /\ outcome.ok => Len(calls) = 1

\* The scenario ran to a successful end with its one call.
C15_Witness ==
    /\ IsScenarioSplit
    /\ outcome.done /\ outcome.ok
    /\ Len(calls) = 1 /\ calls[1].req = ScenarioRequest

\* The value parsing the sub-command has to do, by the fields it has.
ValueParsing(kind) ==
    CASE kind \in {"Split", "Merge", "Redeem"} ->
           {"parse_condition_id", "resolve_collateral", "parse_optional_parent"}
      [] kind = "RedeemNegRisk" -> {"parse_condition_id"}
      [] kind = "CollectionId" -> {"parse_condition_id", "parse_optional_parent"}
      [] OTHER -> {"parse_address", "parse_condition_id"}

\* The statements that normalize an amount.
Normalizers == {"parse_usdc_amount", "parse_usdc_amounts"}

\* C16: the stages run in the order parse, normalize, build partition,
\* assemble request, dispatch, relay: when an amount is normalized all value
\* parsing of the command has been done, the partition is built after the
\* amount is normalized, and an external capability (provider creation
\* included) is invoked only once the request is assembled.
C16_StagesInOrder ==
    /\ (\E n \in Normalizers : Called(n))
         => \A f \in ValueParsing(cmd.kind) : Called(f)
    /\ (Called("partition") /\ IsSplitOrMerge) => Called("parse_usdc_amount")
    /\ (\E f \in ExternalFns : Called(f)) => Called("build")

\* The statements that check an input of the command line.
InputChecks ==
    {"parse_condition_id", "parse_address", "parse_usdc_amount",
     "parse_usdc_amounts", "resolve_collateral", "parse_optional_parent",
     "partition"}

\* The three terminal outcomes.
InputError ==
    /\ ~outcome.ok /\ log[Len(log)] \in InputChecks
    /\ calls = <<>> /\ printed = <<>>
    /\ \A i \in 1..Len(log) : log[i] \notin ExternalFns

RelayedResult ==
    /\ outcome.ok /\ outcome.err = <<>>
    /\ Len(calls) = 1 /\ printed = <<[op |-> calls[1].op]>>

RelayedExternalError ==
    /\ ~outcome.ok /\ log[Len(log)] \notin InputChecks
    /\ printed = <<>>


\* C17: an invocation runs the statements of its arm once each, in order,
\* every one after the success of those before it; while it has not returned
\* it has no outcome and a statement left to run; once it has returned it takes no
\* further step and has exactly one of the three outcomes: an input error
\* before any external action, a relayed result, or a relayed external error,
\* with no result relayed after an error.
C17_OneTerminalOutcome ==
    /\ Len(log) <= Len(Steps(cmd.kind))
    /\ \A i \in 1..Len(log) : log[i] = Steps(cmd.kind)[i][1]
    /\ Running
         => /\ ~outcome.done
            /\ pc <= Len(Steps(cmd.kind)) /\ Len(log) = pc - 1
            /\ \A i \in 1..(pc - 1) :
                 Steps(cmd.kind)[i][3] # "" => Steps(cmd.kind)[i][3] \in DOMAIN loc
    /\ ~Running
         => /\ pc = 0 /\ outcome.done /\ ~ENABLED Next
            /\ Count(InputError) + Count(RelayedResult) + Count(RelayedExternalError) = 1
            /\ ~outcome.ok => outcome.err # <<>>

\* An invocation returned the error of its external call, nothing relayed.
C17_Witness ==
    /\ ~Running /\ RelayedExternalError
    /\ Len(calls) = 1 /\ FailedAt(calls[1].op)

\* C20: main exits with the failure code if and only if the command it
\* dispatched returned an error; the error is then printed exactly once, and
\* before the exit; after a successful command main exits with the success
\* code and no error is printed; nothing is printed while the command runs.
C20_ExitCodeIffError ==
    /\ exit_code \in {"running", "SUCCESS", "FAILURE"}
    /\ exit_code # "running"
         => /\ pc = 0 /\ outcome.done
            /\ exit_code = "FAILURE" <=> ~outcome.ok
            /\ exit_code = "FAILURE" => stderr = <<outcome.err>>
            /\ exit_code = "SUCCESS" => stderr = <<>>
    /\ stderr # <<>> => (pc = 0 /\ ~outcome.ok /\ stderr = <<outcome.err>>)
    /\ (exit_code = "running" /\ pc = 0) => ENABLED (MainPrintError \/ MainExit)

\* main exited with the failure code after printing the error of a command
\* whose external call failed.
C20_Witness ==
    /\ exit_code = "FAILURE"
    /\ stderr = <<outcome.err>>
    /\ Len(calls) = 1 /\ FailedAt(calls[1].op)

\* The item makes the shell run a command, and the command it runs.
ArgsOf(item) == <<"polymarket">> \o split_args(Trim(Chars(item.line)))

StartsCommand(item) ==
    /\ item.ev = "Ok"
    /\ Trim(Chars(item.line)) # <<>>
    /\ Str(Trim(Chars(item.line))) \notin {"exit", "quit"}
    /\ ~(Len(ArgsOf(item)) >= 2 /\ ArgsOf(item)[2] \in {"shell", "setup"})
    /\ try_parse_from(ArgsOf(item)).ok

\* For each thing the user can do at the prompt: whether it starts a command,
\* and which.
LineTable ==
    {[item |-> it, starts |-> StartsCommand(it),
      command |-> IF StartsCommand(it) THEN try_parse_from(ArgsOf(it)).command
                  ELSE [kind |-> ""]] : it \in ShellItems \cup EndItems}

Spelled(item) == CHOOSE r \in LineTable : r.item = item

Started == {i \in 1..Len(read) : Spelled(read[i]).starts}

\* The commands that must have returned: all but the one being awaited.
MustHaveReturned == IF shell_pc = "run" THEN Started \ {Len(read)} ELSE Started

ExternalResponses(e) ==
    [i \in {k \in 1..Len(e.log) : e.log[k] \notin InputChecks} |->
        i < Len(e.log) \/ e.outcome.ok]

InputFailed(e) == ~e.outcome.ok /\ e.log[Len(e.log)] \in InputChecks

SameOutcome(a, b) ==
    /\ a.outcome = b.outcome
    /\ a.calls = b.calls
    /\ a.req = b.req
    /\ a.log = b.log

\* C19: two commands of one shell session typed as the same line are the same
\* command with the same key, whatever ran before them: both fail an input
\* check or neither does, with the same error; the requests they assemble are
\* equal; and given the same external responses they issue the same call and
\* return the same outcome.
C19_IndependentOfHistory ==
    \A i, j \in 1..Len(completed) :
        read[completed[i].line] = read[completed[j].line] =>
            /\ completed[i].cmd = completed[j].cmd
            /\ completed[i].private_key = completed[j].private_key
            /\ InputFailed(completed[i]) <=> InputFailed(completed[j])
            /\ InputFailed(completed[i]) => SameOutcome(completed[i], completed[j])
            /\ completed[i].req # <<>> /\ completed[j].req # <<>> =>
                 completed[i].req = completed[j].req
            /\ ExternalResponses(completed[i]) = ExternalResponses(completed[j]) =>
                 SameOutcome(completed[i], completed[j])

\* The same line run first and third, both times up to its call, with a
\* different command carrying a key in between.
C19_Witness ==
    /\ Len(completed) = 3
    /\ read[completed[1].line] = read[completed[3].line]
    /\ completed[2].cmd # completed[1].cmd
    /\ completed[2].private_key.some /\ ~completed[1].private_key.some
    /\ completed[1].calls # <<>> /\ completed[3].calls # <<>>

\* The arguments main was started with, and the value of --collateral in
\* them: <<>> when the flag is absent.
ArgsGiven == read[1].line

CollateralGiven ==
    IF \E i \in 1..Len(ArgsGiven) : ArgsGiven[i] = "--collateral"
    THEN <<ArgsGiven[1 + CHOOSE i \in 1..Len(ArgsGiven) : ArgsGiven[i] = "--collateral"]>>
    ELSE IF \E i \in 1..Len(ArgsGiven) : ArgsGiven[i] = "--collateral=" \o OTHER_COLLATERAL
    THEN <<OTHER_COLLATERAL>>
    ELSE <<>>

TakesCollateral == cmd.kind \in {"Split", "Merge", "Redeem", "PositionId"}

\* The collateral every local, request and call of the invocation carries.
CollateralIs(bytes) ==
    /\ "collateral_addr" \in DOMAIN loc => loc.collateral_addr = bytes
    /\ "req" \in DOMAIN loc => loc.req.collateral_token = bytes
    /\ \A i \in 1..Len(calls) : calls[i].req.collateral_token = bytes

\* The statement that reads the collateral has run.
CollateralRead ==
    \E i \in 1..Len(log) :
        Steps(cmd.kind)[i][2] = "collateral"

\* The bytes of OTHER_COLLATERAL.
OtherBytes == [i \in 1..20 |-> IF i = 20 THEN 255 ELSE 0]

\* C21: split, merge, redeem and position-id started without --collateral
\* take the text of the shared USDC address constant and carry its address in
\* every request and call; a --collateral given replaces it; one that is no
\* address makes the command fail at the statement that reads it, with no
\* address bound, no request and no call.
C21_CollateralDefault ==
    TakesCollateral =>
        /\ CollateralGiven = <<>> =>
             /\ cmd.collateral = USDC_ADDRESS_STR
             /\ CollateralIs(StablecoinBytes)
             /\ CollateralRead => "collateral_addr" \in DOMAIN loc
        /\ CollateralGiven # <<>> => cmd.collateral = CollateralGiven[1]
        /\ CollateralGiven = <<OTHER_COLLATERAL>> =>
             /\ CollateralIs(OtherBytes)
             /\ CollateralRead => "collateral_addr" \in DOMAIN loc
        /\ CollateralGiven \in {<<"0x12">>, <<"usdc">>} =>
             /\ "collateral_addr" \notin DOMAIN loc
             /\ "req" \notin DOMAIN loc
             /\ calls = <<>>
             /\ CollateralRead =>
                  /\ pc = 0 /\ outcome.done /\ ~outcome.ok
                  /\ outcome.err = <<Link("Invalid address", Chars(CollateralGiven[1]))>>

\* A redeem started without --collateral has issued its call.
C21_Witness ==
    /\ cmd.kind = "Redeem" /\ CollateralGiven = <<>>
    /\ Len(calls) = 1 /\ calls[1].req.collateral_token = StablecoinBytes

\* is_numeric_id has returned for the text.
NumericIdReturned == cmd.kind = "is_numeric_id" /\ pc = 0

AllDigits(s) == s # <<>> /\ \A i \in 1..Len(s) : s[i] \in Digits

\* C22: is_numeric_id returns true exactly for the non-empty texts made of
\* decimal digits only.
C22_TrueIffAllDigits ==
    NumericIdReturned => (loc.is_numeric <=> AllDigits(cmd.id))

CsvInvalid == HasCsv /\ \E i \in 1..Len(CsvElements) : ~IsNatText(CsvElements[i])

\* C23: a --partition of split or merge, or an --index-sets of redeem, that
\* does not parse never yields a list, the default [1, 2] included: no list is
\* bound, no request is built, nothing external is called or printed, and the
\* command returns an error once the list has been read; and a list given
\* that parses is the list used.
C23_NoFallbackToDefault ==
    /\ CsvInvalid =>
         /\ CsvField \notin DOMAIN loc
         /\ "req" \notin DOMAIN loc
         /\ calls = <<>> /\ printed = <<>>
         /\ \A i \in 1..Len(log) : log[i] \notin ExternalFns
         /\ outcome.done => ~outcome.ok
         /\ Called("partition") => outcome.done /\ log[Len(log)] = "partition"
    /\ HasCsv /\ CsvField \in DOMAIN loc => loc[CsvField] = CsvPieceValues

\* A redeem whose other inputs are valid and whose single index set is no
\* integer has failed at the index sets.
C23_Witness ==
    /\ cmd.kind = "Redeem" /\ CsvInvalid /\ Len(CsvElements) = 1
    /\ Len(log) = 4 /\ log[4] = "partition"
    /\ outcome.done /\ ~outcome.ok

\* The list a command parses, its trimmed elements and its parsing statement.
HasList == cmd.kind = "RedeemNegRisk" \/ HasCsv
ListElements == IF cmd.kind = "RedeemNegRisk" THEN Elements(cmd.amounts) ELSE CsvElements
ListParser == IF cmd.kind = "RedeemNegRisk" THEN "parse_usdc_amounts" ELSE "partition"

\* An amount text the list rejects: no number, NaN, or a number below zero.
BadAmount(d) ==
    \/ ~d.ok
    \/ d.special = "nan"
    \/ d.neg /\ d.special = "inf"
    \/ NegativeDec(d)

BadElement(e) ==
    IF cmd.kind = "RedeemNegRisk" THEN BadAmount(DecimalOf(e)) ELSE ~IsNatText(e)

\* The error names the element `e` and no other text.
NamesOnly(e) ==
    /\ outcome.err # <<>>
    /\ outcome.err[1].text = e
    /\ \A k \in 1..Len(outcome.err) : outcome.err[k].text \in {e, <<>>}

LeftmostBad(es) ==
    CHOOSE i \in 1..Len(es) : BadElement(es[i]) /\ \A j \in 1..(i - 1) : ~BadElement(es[j])

\* C24: when the integer CSV or the amount list fails to parse, some element
\* is invalid and the error returned carries the trimmed text of the
\* leftmost invalid element and of no other element.
C24_ErrorNamesLeftmost ==
    HasList /\ FailedAt(ListParser) =>
        /\ \E i \in 1..Len(ListElements) : BadElement(ListElements[i])
        /\ NamesOnly(ListElements[LeftmostBad(ListElements)])

\* Two invalid elements of different texts, and the error names the first.
C24_Witness ==
    /\ HasList /\ FailedAt(ListParser)
    /\ Len(ListElements) = 2
    /\ BadElement(ListElements[1]) /\ BadElement(ListElements[2])
    /\ ListElements[1] # ListElements[2]
    /\ outcome.err[1].text = ListElements[1]

\* The amount texts of the command, and the amounts bound from them so far.
AmountTexts ==
    IF IsSplitOrMerge THEN <<Chars(cmd.amount_text)>>
    ELSE IF cmd.kind = "RedeemNegRisk" THEN Elements(cmd.amounts)
    ELSE <<>>

AmountsBound ==
    IF IsSplitOrMerge /\ "usdc_amount" \in DOMAIN loc THEN <<loc.usdc_amount>>
    ELSE IF cmd.kind = "RedeemNegRisk" /\ "amounts" \in DOMAIN loc THEN loc.amounts
    ELSE <<>>

AmountsOf(req) == IF IsSplitOrMerge THEN <<req.amount>> ELSE req.amounts

AmountParser == IF IsSplitOrMerge THEN "parse_usdc_amount" ELSE "parse_usdc_amounts"

\* The text denotes +infinity, or a number d with d * 1,000,000 >= 2^64.
Exceeds(d) ==
    d.ok /\ ~d.neg
    /\ (d.special = "inf" \/ (d.special = "" /\ Len(ExactMicro(d)) > U64Bits))

\* The amounts are those normalization may give for the texts: each at most
\* 2^64 - 1, and exactly that, not the exact floor, where the text exceeds.
Clamped(amounts) ==
    /\ Len(amounts) = Len(AmountTexts)
    /\ \A i \in 1..Len(amounts) :
         /\ Len(amounts[i]) <= U64Bits
         /\ Exceeds(DecimalOf(AmountTexts[i])) =>
              /\ amounts[i] = U64_MAX
              /\ DecimalOf(AmountTexts[i]).special = "" =>
                   amounts[i] # ExactMicro(DecimalOf(AmountTexts[i]))

\* C25: a normalized amount never exceeds 2^64 - 1; an amount whose scaled
\* value is larger is accepted and becomes 2^64 - 1, in the amount bound and
\* in the request dispatched, which is not floor(d * 1,000,000).
C25_ClampedToU64Max ==
    (IsSplitOrMerge \/ cmd.kind = "RedeemNegRisk") =>
        /\ AmountsBound # <<>> => Clamped(AmountsBound)
        /\ \A i \in 1..Len(calls) : Clamped(AmountsOf(calls[i].req))
        /\ (Called(AmountParser)
            /\ \A i \in 1..Len(AmountTexts) :
                 Exceeds(DecimalOf(AmountTexts[i])) \/ PositiveDec(DecimalOf(AmountTexts[i])))
               => AmountsBound # <<>>

\* A split of 18446744073709.551616, whose scaled value is 2^64, dispatched
\* with the amount 2^64 - 1.
C25_Witness ==
    /\ cmd.kind = "Split" /\ cmd.amount_text = "18446744073709.551616"
    /\ Len(calls) = 1 /\ calls[1].req.amount = U64_MAX

\* --- the end of the shell loop (shell.rs:11-62)

\* What the loop does with each item: leaves (exit, quit, end of input, a read
\* error), or goes round again.
PromptTable ==
    {[item |-> it,
      leaves |-> \/ it.ev \in {"Eof", "Err"}
                 \/ it.ev = "Ok" /\ Str(Trim(Chars(it.line))) \in {"exit", "quit"},
      parsed |-> IF StartsCommand(it) THEN try_parse_from(ArgsOf(it)) ELSE ClapError]
     : it \in PromptItems \cup EndItems}

Prompted(item) == CHOOSE row \in PromptTable : row.item = item

Leaving == {i \in 1..Len(read) : Prompted(read[i]).leaves}

\* C26: the loop of a shell ends only on `exit` or `quit`, on the end of the
\* input, or on a read error that is not an interrupt: one goodbye is said per
\* such item read and none otherwise, the process has left the shell exactly
\* when every shell that was started has said goodbye, and after a line that
\* does not parse, a command that failed, an empty line or an interrupt the
\* shell is at its prompt again.
C26_LoopEndsOnlyOnExit ==
    /\ Occurrences(printed, Println("Goodbye!")) = Cardinality(Leaving)
    /\ (shell_pc = "exited") = (Depth = 0)
    /\ shell_pc = "exited" => read # <<>> /\ Len(read) \in Leaving
    /\ shell_pc \in {"readline", "run", "exited"}
    /\ shell_pc = "run" => read # <<>> /\ Prompted(read[Len(read)]).parsed.ok
    /\ read # <<>> /\ ~Prompted(read[Len(read)]).leaves /\ shell_pc # "run"
         => shell_pc = "readline"

\* A command failed, then Ctrl-C, and the shell awaits its third line.
C26_Witness ==
    /\ Len(read) = 2
    /\ Len(completed) = 1 /\ ~completed[1].outcome.ok
    /\ read[2].ev = "Interrupted"
    /\ shell_pc = "readline"
    /\ Occurrences(printed, Println("Goodbye!")) = 0

\* C27: no line typed in the shell has the shell run `shell` or `setup`.
C27_NeverShellOrSetup ==
    shell_pc # "off" => cmd.kind \notin {"shell", "setup"}

\* --- the routing of DataCommand (data.rs:177-400)

\* The handler whose match has an arm for the variant that is not
\* unreachable!, read from the three handlers.
Handles(handler, variant) == \E arm \in HandlerArms[handler] : arm[1] = variant

\* C28: execute routes every variant of DataCommand to the handler that has an
\* arm for it: no unreachable! is reached, the handler entered handles the
\* variant, and the only call made is that arm's call.
C28_RoutedToItsHandler ==
    cmd.kind = "data" =>
        /\ ~Called("unreachable!")
        /\ outcome.done => outcome.err = <<>> \/ outcome.err[1].msg # "panicked"
        /\ pc # 1 => /\ "handler" \in DOMAIN loc
                      /\ Handles(loc.handler, cmd.variant)
                      /\ \A other \in DOMAIN HandlerArms :
                            Handles(other, cmd.variant) => other = loc.handler
        /\ \A i \in 1..Len(calls) :
              <<cmd.variant, calls[i].op, "print_" \o calls[i].op>> \in HandlerArms[loc.handler]

\* A market query answered and printed by execute_market.
C28_Witness ==
    /\ cmd.kind = "data" /\ cmd.variant = "Volume"
    /\ pc = 0 /\ outcome.done /\ outcome.ok
    /\ log = <<"execute_market", "build", "live_volume", "print_live_volume">>

\* --- the stored config under wallet create, import and reset
\* (wallet.rs:75-144, 233-278)

WalletCmd(variants) == cmd.kind = "wallet" /\ cmd.variant \in variants

Saves == {i \in 1..Len(calls) : calls[i].op = "save_wallet"}

\* C29: wallet create and wallet import do not overwrite a config without
\* --force: with a config there and force false the command fails with the
\* config as it was and nothing saved; and wallet import of a key that is no
\* valid private key, --force or not, fails with the config as it was and
\* nothing saved.
C29_NoOverwriteWithoutForce ==
    WalletCmd({"Create", "Import"}) =>
        /\ config_before # <<>> /\ ~cmd.force =>
              /\ config = config_before
              /\ Saves = {}
              /\ pc \in {0, 1}
              /\ pc = 0 => outcome.done /\ ~outcome.ok
        /\ cmd.variant = "Import" /\ ~SignerFromStr(cmd.key).ok =>
              /\ config = config_before
              /\ Saves = {}
              /\ pc \in {0, 1, 2}
              /\ pc = 0 => outcome.done /\ ~outcome.ok
        /\ config # config_before => cmd.force \/ config_before = <<>>

\* wallet create without --force has failed at the guard, the old wallet kept.
C29_Witness ==
    /\ WalletCmd({"Create"}) /\ ~cmd.force
    /\ config_before = <<Wallet(KEY_OLD, POLYGON, "eoa")>>
    /\ config = config_before
    /\ pc = 0 /\ outcome.done /\ ~outcome.ok
    /\ log = <<"guard_overwrite">>

\* The answers that are y or yes once trimmed and in lower case.
YesAnswers == {"y\n", "Y\r\n", "yes\n", "  YeS \n", " y"}

Answered == "input" \in DOMAIN loc

\* C30: wallet reset deletes the config only when there is one and --force is
\* given or the answer is y or yes (any case, whitespace around it ignored);
\* without a config, or on another answer, nothing is deleted and the command
\* returns success.
C30_ResetOnlyWhenConfirmed ==
    WalletCmd({"Reset"}) =>
        /\ config # config_before =>
              /\ config_before # <<>> /\ config = <<>>
              /\ cmd.force \/ (Answered /\ loc.input \in YesAnswers)
        /\ Answered => ~cmd.force /\ config_before # <<>>
        /\ config_before = <<>> \/ (Answered /\ loc.input \notin YesAnswers) =>
              /\ config = config_before
              /\ calls = <<>>
              /\ pc \in {0, 1}
              /\ pc = 0 => outcome.done /\ outcome.ok

\* The question answered "  YeS " and the config deleted.
C30_Witness ==
    /\ WalletCmd({"Reset"}) /\ ~cmd.force
    /\ Answered /\ loc.input = "  YeS \n"
    /\ config_before # <<>> /\ config = <<>>
    /\ pc = 0 /\ outcome.done /\ outcome.ok

====
